---- MODULE Spec2Model ----
(***************************************************************************)
(* A model of the pygui GUI builder: the design canvas (widgets, groups,   *)
(* selection, clipboard, undo/redo history), the code generator and the    *)
(* code parser.                                                            *)
(*                                                                         *)
(* Text is modelled as a sequence of lines, a line as a sequence of atoms  *)
(* (short strings); the parser's substring searches are contiguous atom    *)
(* searches.  A Python str is a sequence of atoms as well, so ids and      *)
(* string property values can be spliced into a line.                      *)
(***************************************************************************)
EXTENDS Integers, Sequences, FiniteSets, TLC

VARIABLES
    widgets,             \* DesignCanvas.widgets: ordered dict, as the sequence of its values
    groups,              \* DesignCanvas.groups: ordered dict, as the sequence of its values
    selected_widget_id,  \* DesignCanvas.selected_widget_id
    selected_widget_ids, \* DesignCanvas.selected_widget_ids
    selected_group_id,   \* DesignCanvas.selected_group_id
    drag_data,           \* DesignCanvas.drag_data
    clipboard,           \* DesignCanvas.clipboard
    undo_stack,          \* DesignCanvas.undo_stack
    redo_stack,          \* DesignCanvas.redo_stack
    status_bar,          \* text of the status bar label
    window_properties,   \* GUIBuilderApp.window_properties
    code,                \* text of the code editor
    project_file         \* the project file the open dialog selects, as json.load reads it

vars == <<widgets, groups, selected_widget_id, selected_widget_ids, selected_group_id,
          drag_data, clipboard, undo_stack, redo_stack, status_bar, window_properties, code,
          project_file>>

(***************************************************************************)
(* Bounds of the model.                                                    *)
(***************************************************************************)
MaxWidgets == 2
MaxGroups == 1
MaxHistory == 1
HistMaxWidgets == 53
CodeMaxWidgets == 1

(***************************************************************************)
(* Python values.                                                          *)
(***************************************************************************)
None == <<"<None>">>
IntV(n) == <<"int", n>>
StrV(s) == <<"str", s>>
BoolV(b) == <<"bool", b>>
NoneV == <<"none">>
ListV(l) == <<"list", l>>

Truthy(s) == s # None /\ s # <<>>

Max2(a, b) == IF a >= b THEN a ELSE b
Min2(a, b) == IF a <= b THEN a ELSE b
SetMax(S) == CHOOSE m \in S : \A n \in S : n <= m
SetMin(S) == CHOOSE m \in S : \A n \in S : m <= n
Range(s) == {s[i] : i \in DOMAIN s}

RECURSIVE Without(_, _)
Without(s, e) ==
    IF s = <<>> THEN <<>>
    ELSE IF Head(s) = e THEN Tail(s)
    ELSE <<Head(s)>> \o Without(Tail(s), e)

(***************************************************************************)
(* Ordered dicts keyed by the id of their values.                          *)
(***************************************************************************)
Keys(d) == {d[i].id : i \in DOMAIN d}
Has(d, k) == k \in Keys(d)
IndexOf(d, k) == CHOOSE i \in DOMAIN d : d[i].id = k
Get(d, k) == d[IndexOf(d, k)]
Put(d, v) ==
    IF Has(d, v.id) THEN [d EXCEPT ![IndexOf(d, v.id)] = v] ELSE Append(d, v)
Del(d, k) == SelectSeq(d, LAMBDA v : v.id # k)

(***************************************************************************)
(* uuid.uuid4(): an id in use nowhere in the program.  The model takes the *)
(* first unused id of an enumeration of ids of both shapes a UUID has      *)
(* (first character a letter, first character a digit).                    *)
(***************************************************************************)
MaxUuid == 60
MaxIds == 4
MaxCoord == 110
MaxSize == 130
MaxLayer == 1
Uuid(n) ==
    IF n % 2 = 1 THEN <<"e", ToString(n), "-", "4">>
    ELSE <<ToString(n), "b", "-", "4">>

RECURSIVE StackIds(_)
StackIds(stack) ==
    IF stack = <<>> THEN {}
    ELSE Keys(Head(stack).widgets) \cup {Head(stack).selected_widget_id}
         \cup StackIds(Tail(stack))

uuid4(used) == Uuid(CHOOSE n \in 1..MaxUuid :
                      /\ Uuid(n) \notin used
                      /\ \A m \in 1..(n - 1) : Uuid(m) \in used)

(***************************************************************************)
(* models/widget_types.py                                                  *)
(***************************************************************************)
WidgetTypes == {"Button", "Label", "Entry", "Checkbox", "Combobox", "Slider", "Progressbar"}

\* A WidgetData object.  pobj names the WidgetProperty objects its properties
\* dict holds: two widgets with the same pobj share those objects.
WidgetData(id, type, x, y, width, height, properties, pobj) ==
    [id |-> id, type |-> type, x |-> x, y |-> y, width |-> width, height |-> height,
     properties |-> properties, group_id |-> None, layer |-> 0, pobj |-> pobj]

to_dict(w) ==
    [id |-> w.id, type |-> w.type, x |-> w.x, y |-> w.y, width |-> w.width,
     height |-> w.height, group_id |-> w.group_id, layer |-> w.layer,
     properties |-> w.properties]

WidgetGroup(id, name, widget_ids, x, y, width, height) ==
    [id |-> id, name |-> name, widget_ids |-> widget_ids, x |-> x, y |-> y,
     width |-> width, height |-> height, layer |-> 0, visible |-> TRUE, locked |-> FALSE]

get_default_properties(widget_type) ==
    CASE widget_type = "Button" ->
           [text |-> StrV(<<"Button">>), width |-> IntV(100), height |-> IntV(30),
            command |-> StrV(<<>>)]
      [] widget_type = "Label" ->
           [text |-> StrV(<<"Label">>), width |-> IntV(100), height |-> IntV(30),
            font_size |-> IntV(12)]
      [] widget_type = "Entry" ->
           [placeholder |-> StrV(<<"Enter text...">>), width |-> IntV(100),
            height |-> IntV(30)]
      [] widget_type = "Checkbox" ->
           [text |-> StrV(<<"Checkbox">>), checked |-> BoolV(FALSE), width |-> IntV(100),
            height |-> IntV(30)]
      [] widget_type = "Combobox" ->
           [values |-> StrV(<<"Option 1", ",", "Option 2", ",", "Option 3">>),
            width |-> IntV(100), height |-> IntV(30)]
      [] widget_type = "Slider" ->
           [from_ |-> IntV(0), to |-> IntV(100), value |-> IntV(50), width |-> IntV(200),
            height |-> IntV(20)]
      [] widget_type = "Progressbar" ->
           [mode |-> StrV(<<"determinate">>), value |-> IntV(50), width |-> IntV(200),
            height |-> IntV(20)]

(***************************************************************************)
(* The program state as one record, so that a handler is a function from   *)
(* state to state and handlers compose as their code calls one another.    *)
(***************************************************************************)
Cur ==
    [widgets |-> widgets, groups |-> groups, selected_widget_id |-> selected_widget_id,
     selected_widget_ids |-> selected_widget_ids, selected_group_id |-> selected_group_id,
     drag_data |-> drag_data, clipboard |-> clipboard, undo_stack |-> undo_stack,
     redo_stack |-> redo_stack, status_bar |-> status_bar,
     window_properties |-> window_properties, code |-> code,
     project_file |-> project_file]

Commit(s) ==
    /\ widgets' = s.widgets
    /\ groups' = s.groups
    /\ selected_widget_id' = s.selected_widget_id
    /\ selected_widget_ids' = s.selected_widget_ids
    /\ selected_group_id' = s.selected_group_id
    /\ drag_data' = s.drag_data
    /\ clipboard' = s.clipboard
    /\ undo_stack' = s.undo_stack
    /\ redo_stack' = s.redo_stack
    /\ status_bar' = s.status_bar
    /\ window_properties' = s.window_properties
    /\ code' = s.code
    /\ project_file' = s.project_file

\* The open dialog has no file to offer
NoFile == [content |-> "absent"]

NoDrag == [widget |-> None, group |-> None, mode |-> "none", handle |-> 0,
           x |-> 0, y |-> 0, original_x |-> 0, original_y |-> 0,
           original_width |-> 0, original_height |-> 0,
           click_offset_x |-> 0, click_offset_y |-> 0]

\* status_bar.configure(text=...): the text as <<format, argument>>
Status(s, text, arg) == [s EXCEPT !.status_bar = <<text, arg>>]

\* The ids in use in state s
IdsInUse(s) ==
    Keys(s.widgets) \cup Keys(s.groups)
    \cup UNION {Range(s.groups[i].widget_ids) : i \in DOMAIN s.groups}
    \cup Range(s.selected_widget_ids) \cup {s.selected_widget_id, s.selected_group_id}
    \cup (IF s.clipboard = <<>> THEN {} ELSE {s.clipboard[1].w.id})
    \cup {s.drag_data.widget, s.drag_data.group}
    \cup StackIds(s.undo_stack) \cup StackIds(s.redo_stack)

\* The WidgetProperty object sets in use in state s, and a new one
PobjsInUse(s) ==
    {s.widgets[i].pobj : i \in DOMAIN s.widgets}
    \cup (IF s.clipboard = <<>> THEN {} ELSE {s.clipboard[1].w.pobj})
NewPobj(used) == CHOOSE n \in 1..(Cardinality(used) + 1) :
                    n \notin used /\ \A m \in 1..(n - 1) : m \in used

\* Writing a field of the WidgetData object stored under id: the clipboard
\* sees the write when it holds that same object.
SetField(s, id, f, v) ==
    [s EXCEPT !.widgets = [i \in DOMAIN s.widgets |->
                             IF s.widgets[i].id = id THEN [s.widgets[i] EXCEPT ![f] = v]
                             ELSE s.widgets[i]],
              !.clipboard = IF s.clipboard # <<>> /\ s.clipboard[1].live /\ s.clipboard[1].w.id = id
                            THEN [s.clipboard EXCEPT ![1].w[f] = v]
                            ELSE s.clipboard]

\* Writing properties[name].value of the WidgetProperty objects pobj: every
\* holder of those objects sees the write.
SetProperty(s, pobj, name, v) ==
    [s EXCEPT !.widgets = [i \in DOMAIN s.widgets |->
                             IF s.widgets[i].pobj = pobj
                             THEN [s.widgets[i] EXCEPT !.properties[name] = v]
                             ELSE s.widgets[i]],
              !.clipboard = IF s.clipboard # <<>> /\ s.clipboard[1].w.pobj = pobj
                            THEN [s.clipboard EXCEPT ![1].w.properties[name] = v]
                            ELSE s.clipboard]

(***************************************************************************)
(* ui/design_canvas.py: selection                                          *)
(***************************************************************************)
\* GUIBuilderApp.on_widget_select
on_widget_select(s, widget_id) ==
    IF widget_id = None THEN Status(s, "No widget selected", 0)
    ELSE Status(s, "Selected: {type}", Get(s.widgets, widget_id).type)

select_widget(s, widget_id) ==
    on_widget_select([s EXCEPT !.selected_widget_id = widget_id,
                               !.selected_widget_ids = <<widget_id>>],
                     widget_id)

deselect_all(s) ==
    on_widget_select([s EXCEPT !.selected_widget_id = None,
                               !.selected_widget_ids = <<>>], None)

\* GUIBuilderApp.update_status_info, called with project_modified set
update_status_info(s) == Status(s, "Widgets: {n} (Modified)", Len(s.widgets))

(***************************************************************************)
(* ui/design_canvas.py: widgets                                            *)
(***************************************************************************)
add_widget(s, widget_type, x, y) ==
    LET widget_id == uuid4(IdsInUse(s))
        widget_data == WidgetData(widget_id, widget_type, x, y, 100, 30,
                                  get_default_properties(widget_type),
                                  NewPobj(PobjsInUse(s)))
        s1 == [s EXCEPT !.widgets = Put(s.widgets, widget_data)]
    IN update_status_info(select_widget(s1, widget_id))

delete_widget(s, widget_id) ==
    IF Has(s.widgets, widget_id)
    THEN LET s1 == [s EXCEPT !.widgets = Del(s.widgets, widget_id),
                             !.clipboard = IF s.clipboard # <<>> /\ s.clipboard[1].w.id = widget_id
                                           THEN [s.clipboard EXCEPT ![1].live = FALSE]
                                           ELSE s.clipboard]
             s2 == IF s1.selected_widget_id = widget_id THEN deselect_all(s1) ELSE s1
         IN update_status_info(s2)
    ELSE s

duplicate_widget(s, widget_id) ==
    IF Has(s.widgets, widget_id)
    THEN LET original == Get(s.widgets, widget_id)
             new_widget == WidgetData(uuid4(IdsInUse(s)), original.type,
                                      original.x + 20, original.y + 20,
                                      original.width, original.height,
                                      original.properties, original.pobj)
         IN [s EXCEPT !.widgets = Put(s.widgets, new_widget)]
    ELSE s

(***************************************************************************)
(* ui/design_canvas.py: undo/redo history                                  *)
(***************************************************************************)
max_undo_steps == 50

Snapshot(s) ==
    [widgets |-> [i \in DOMAIN s.widgets |-> to_dict(s.widgets[i])],
     selected_widget_id |-> s.selected_widget_id]

\* save_state without the length check: the stack grows without bound
save_state_no_eviction(s) ==
    [s EXCEPT !.undo_stack = Append(s.undo_stack, Snapshot(s)),
              !.redo_stack = <<>>]

\* save_state with pop() in place of pop(0): the newest entry is dropped
save_state_evict_newest(s) ==
    LET kept == IF Len(s.undo_stack) >= max_undo_steps
                THEN SubSeq(s.undo_stack, 1, Len(s.undo_stack) - 1) ELSE s.undo_stack
    IN [s EXCEPT !.undo_stack = Append(kept, Snapshot(s)),
                 !.redo_stack = <<>>]

\* save_state without redo_stack.clear()
save_state_keep_redo(s) ==
    LET kept == IF Len(s.undo_stack) >= max_undo_steps
                THEN Tail(s.undo_stack) ELSE s.undo_stack
    IN [s EXCEPT !.undo_stack = Append(kept, Snapshot(s))]

save_state(s) ==
    LET kept == IF Len(s.undo_stack) >= max_undo_steps
                THEN Tail(s.undo_stack) ELSE s.undo_stack
    IN [s EXCEPT !.undo_stack = Append(kept, Snapshot(s)),
                 !.redo_stack = <<>>]

save_state_to_undo(s) == [s EXCEPT !.undo_stack = Append(s.undo_stack, Snapshot(s))]

save_state_to_redo(s) == [s EXCEPT !.redo_stack = Append(s.redo_stack, Snapshot(s))]

\* The WidgetData built from one entry of a snapshot: group_id and layer are
\* not passed to the constructor, the WidgetProperty objects are new ones.
RestoredWidget(d, pobj) ==
    WidgetData(d.id, d.type, d.x, d.y, d.width, d.height, d.properties, pobj)

\* The k-th number not in used
RECURSIVE NthFree(_, _, _)
NthFree(used, k, from) ==
    IF from \in used THEN NthFree(used, k, from + 1)
    ELSE IF k = 1 THEN from
    ELSE NthFree(used, k - 1, from + 1)

restore_state(s, state) ==
    LET held == IF s.clipboard = <<>> THEN {} ELSE {s.clipboard[1].w.pobj}
        restored == [i \in DOMAIN state.widgets |->
                       RestoredWidget(state.widgets[i], NthFree(held, i, 1))]
        s1 == [s EXCEPT !.widgets = restored,
                        !.clipboard = IF s.clipboard = <<>> THEN <<>>
                                      ELSE [s.clipboard EXCEPT ![1].live = FALSE]]
    IN IF Truthy(state.selected_widget_id) /\ Has(s1.widgets, state.selected_widget_id)
       THEN select_widget(s1, state.selected_widget_id)
       ELSE deselect_all(s1)

\* on_undo that saves the current state for redo before it looks at the stack
on_undo_save_first(s) ==
    LET s1 == save_state_to_redo(s)
    IN IF s.undo_stack # <<>>
       THEN LET state == s1.undo_stack[Len(s1.undo_stack)]
                s2 == [s1 EXCEPT !.undo_stack = SubSeq(s1.undo_stack, 1, Len(s1.undo_stack) - 1)]
            IN Status(restore_state(s2, state), "Action undone", 0)
       ELSE s1

on_undo(s) ==
    IF s.undo_stack # <<>>
    THEN LET s1 == save_state_to_redo(s)
             state == s1.undo_stack[Len(s1.undo_stack)]
             s2 == [s1 EXCEPT !.undo_stack = SubSeq(s1.undo_stack, 1, Len(s1.undo_stack) - 1)]
         IN Status(restore_state(s2, state), "Action undone", 0)
    ELSE s

on_redo(s) ==
    IF s.redo_stack # <<>>
    THEN LET s1 == save_state_to_undo(s)
             state == s1.redo_stack[Len(s1.redo_stack)]
             s2 == [s1 EXCEPT !.redo_stack = SubSeq(s1.redo_stack, 1, Len(s1.redo_stack) - 1)]
         IN Status(restore_state(s2, state), "Action redone", 0)
    ELSE s

(***************************************************************************)
(* ui/design_canvas.py: keyboard handlers                                  *)
(***************************************************************************)
on_delete_key(s) ==
    IF Truthy(s.selected_widget_id)
    THEN Status(delete_widget(save_state(s), s.selected_widget_id), "Widget deleted", 0)
    ELSE s

\* self.widgets[self.selected_widget_id] raises KeyError when the selection
\* names no widget; the handler then ends without having changed anything.
on_copy(s) ==
    IF Truthy(s.selected_widget_id) /\ Has(s.widgets, s.selected_widget_id)
    THEN Status([s EXCEPT !.clipboard = <<[w |-> Get(s.widgets, s.selected_widget_id),
                                          live |-> TRUE]>>],
                "Widget copied to clipboard", 0)
    ELSE s

on_cut(s) ==
    IF Truthy(s.selected_widget_id) /\ Has(s.widgets, s.selected_widget_id)
    THEN LET s1 == [s EXCEPT !.clipboard = <<[w |-> Get(s.widgets, s.selected_widget_id),
                                             live |-> TRUE]>>]
         IN Status(delete_widget(save_state(s1), s.selected_widget_id),
                   "Widget cut to clipboard", 0)
    ELSE s

on_paste(s) ==
    IF s.clipboard # <<>>
    THEN LET s1 == save_state(s)
             new_widget == WidgetData(uuid4(IdsInUse(s1)), s.clipboard[1].w.type,
                                      s.clipboard[1].w.x + 20, s.clipboard[1].w.y + 20,
                                      s.clipboard[1].w.width, s.clipboard[1].w.height,
                                      s.clipboard[1].w.properties, s.clipboard[1].w.pobj)
             s2 == [s1 EXCEPT !.widgets = Put(s1.widgets, new_widget)]
         IN Status(select_widget(s2, new_widget.id), "Widget pasted from clipboard", 0)
    ELSE s

on_duplicate(s) ==
    IF Truthy(s.selected_widget_id)
    THEN Status(duplicate_widget(save_state(s), s.selected_widget_id), "Widget duplicated", 0)
    ELSE s

on_select_all(s) ==
    IF s.widgets # <<>>
    THEN LET ids == [i \in DOMAIN s.widgets |-> s.widgets[i].id]
             s1 == [s EXCEPT !.selected_widget_ids = ids, !.selected_widget_id = ids[1]]
             s2 == on_widget_select(s1, IF Truthy(ids[1]) THEN ids[1] ELSE None)
         IN Status(s2, "Selected {n} widgets", Len(ids))
    ELSE s

on_escape(s) == Status(deselect_all(s), "Selection cleared", 0)

(***************************************************************************)
(* ui/design_canvas.py: groups                                             *)
(***************************************************************************)
SetGroup(s, g) == [s EXCEPT !.groups = Put(s.groups, g)]

\* The members of a group that are widgets of the document
LiveMembers(s, widget_ids) == {wid \in Range(widget_ids) : Has(s.widgets, wid)}

\* min()/max() of an empty sequence raise ValueError
UpdateGroupBoundsRaises(s, group_id) ==
    /\ Has(s.groups, group_id)
    /\ Get(s.groups, group_id).widget_ids # <<>>
    /\ LiveMembers(s, Get(s.groups, group_id).widget_ids) = {}

update_group_bounds(s, group_id) ==
    IF ~Has(s.groups, group_id) THEN s
    ELSE LET group == Get(s.groups, group_id)
             live == LiveMembers(s, group.widget_ids)
         IN IF group.widget_ids = <<>> \/ live = {} THEN s
            ELSE LET min_x == SetMin({Get(s.widgets, wid).x : wid \in live})
                     min_y == SetMin({Get(s.widgets, wid).y : wid \in live})
                     max_x == SetMax({Get(s.widgets, wid).x + Get(s.widgets, wid).width
                                        : wid \in live})
                     max_y == SetMax({Get(s.widgets, wid).y + Get(s.widgets, wid).height
                                        : wid \in live})
                 IN SetGroup(s, [group EXCEPT !.x = min_x, !.y = min_y,
                                              !.width = max_x - min_x,
                                              !.height = max_y - min_y])

RECURSIVE AssignGroup(_, _, _)
AssignGroup(s, widget_ids, group_id) ==
    IF widget_ids = <<>> THEN s
    ELSE AssignGroup(SetField(s, Head(widget_ids), "group_id", group_id),
                     Tail(widget_ids), group_id)

\* self.widgets[wid] raises KeyError for an id that names no widget; nothing
\* has been changed at that point.
create_group(s, widget_ids, name) ==
    IF Len(widget_ids) < 2 THEN s
    ELSE IF \E wid \in Range(widget_ids) : ~Has(s.widgets, wid) THEN s
    ELSE LET min_x == SetMin({Get(s.widgets, wid).x : wid \in Range(widget_ids)})
             min_y == SetMin({Get(s.widgets, wid).y : wid \in Range(widget_ids)})
             max_x == SetMax({Get(s.widgets, wid).x + Get(s.widgets, wid).width
                                : wid \in Range(widget_ids)})
             max_y == SetMax({Get(s.widgets, wid).y + Get(s.widgets, wid).height
                                : wid \in Range(widget_ids)})
             group == WidgetGroup(uuid4(IdsInUse(s)), name, widget_ids, min_x, min_y,
                                  max_x - min_x, max_y - min_y)
             s1 == AssignGroup(SetGroup(s, group), widget_ids, group.id)
         IN Status(s1, "Group '{name}' created with {n} widgets", Len(widget_ids))

create_group_from_selection(s) ==
    IF Len(s.selected_widget_ids) >= 2
    THEN create_group(s, s.selected_widget_ids, "New Group")
    ELSE Status(s, "Select at least 2 widgets to create a group (Ctrl+click for multi-selection)", 0)

\* ungroup_widgets without the loop over group.widget_ids
ungroup_widgets_keep_group_id(s, group_id) ==
    IF ~Has(s.groups, group_id) THEN s
    ELSE LET group == Get(s.groups, group_id)
             s2 == [s EXCEPT !.groups = Del(s.groups, group_id),
                             !.selected_group_id =
                                 IF s.selected_group_id = group_id THEN None
                                 ELSE s.selected_group_id]
         IN Status(s2, "Group '{name}' ungrouped", 0)

ungroup_widgets(s, group_id) ==
    IF ~Has(s.groups, group_id) THEN s
    ELSE LET group == Get(s.groups, group_id)
             s1 == AssignGroup(s, group.widget_ids, None)
             s2 == [s1 EXCEPT !.groups = Del(s1.groups, group_id),
                              !.selected_group_id =
                                  IF s1.selected_group_id = group_id THEN None
                                  ELSE s1.selected_group_id]
         IN Status(s2, "Group '{name}' ungrouped", 0)

remove_from_group(s, widget_id, group_id) ==
    IF ~Has(s.widgets, widget_id) \/ ~Has(s.groups, group_id) THEN s
    ELSE LET group == Get(s.groups, group_id)
             s1 == SetGroup(s, [group EXCEPT !.widget_ids = Without(group.widget_ids, widget_id)])
             s2 == SetField(s1, widget_id, "group_id", None)
         IN IF UpdateGroupBoundsRaises(s2, group_id) THEN s2
            ELSE Status(update_group_bounds(s2, group_id),
                        "Widget removed from group '{name}'", 0)

\* remove_from_group may raise out of update_group_bounds, which ends add_to_group
add_to_group(s, widget_id, group_id) ==
    IF ~Has(s.widgets, widget_id) \/ ~Has(s.groups, group_id) THEN s
    ELSE LET old == Get(s.widgets, widget_id).group_id
             s1 == IF Truthy(old) THEN remove_from_group(s, widget_id, old) ELSE s
         IN IF Truthy(old) /\ Has(s.groups, old)
               /\ UpdateGroupBoundsRaises(
                     SetGroup(s, [Get(s.groups, old) EXCEPT
                                    !.widget_ids = Without(@, widget_id)]), old)
            THEN s1
            ELSE LET s2 == SetField(s1, widget_id, "group_id", group_id)
                     group == Get(s2.groups, group_id)
                     s3 == SetGroup(s2, [group EXCEPT !.widget_ids = Append(@, widget_id)])
                 IN Status(update_group_bounds(s3, group_id),
                           "Widget added to group '{name}'", 0)

RECURSIVE MoveMembers(_, _, _, _)
MoveMembers(s, widget_ids, dx, dy) ==
    IF widget_ids = <<>> THEN s
    ELSE LET wid == Head(widget_ids)
             s1 == IF Has(s.widgets, wid)
                   THEN LET w == Get(s.widgets, wid)
                        IN SetField(SetField(s, wid, "x", w.x + dx), wid, "y", w.y + dy)
                   ELSE s
         IN MoveMembers(s1, Tail(widget_ids), dx, dy)

move_group(s, group_id, dx, dy) ==
    IF ~Has(s.groups, group_id) THEN s
    ELSE update_group_bounds(MoveMembers(s, Get(s.groups, group_id).widget_ids, dx, dy),
                             group_id)

\* int(a * (n / d)) for d > 0: the product truncated towards zero
ScaleInt(a, n, d) ==
    IF a * n >= 0 THEN (a * n) \div d ELSE -((-(a * n)) \div d)

RECURSIVE ResizeMembers(_, _, _, _, _)
ResizeMembers(s, widget_ids, group, new_width, new_height) ==
    IF widget_ids = <<>> THEN s
    ELSE LET wid == Head(widget_ids)
             \* scale_x = new_width / group.width if group.width > 0 else 1
             nx == IF group.width > 0 THEN new_width ELSE 1
             dx == IF group.width > 0 THEN group.width ELSE 1
             ny == IF group.height > 0 THEN new_height ELSE 1
             dy == IF group.height > 0 THEN group.height ELSE 1
             s1 == IF Has(s.widgets, wid)
                   THEN LET w == Get(s.widgets, wid)
                            rel_x == w.x - group.x
                            rel_y == w.y - group.y
                            a == SetField(s, wid, "x", group.x + ScaleInt(rel_x, nx, dx))
                            b == SetField(a, wid, "y", group.y + ScaleInt(rel_y, ny, dy))
                            c == SetField(b, wid, "width", Max2(20, ScaleInt(w.width, nx, dx)))
                        IN SetField(c, wid, "height", Max2(20, ScaleInt(w.height, ny, dy)))
                   ELSE s
         IN ResizeMembers(s1, Tail(widget_ids), group, new_width, new_height)

resize_group(s, group_id, new_width, new_height) ==
    IF ~Has(s.groups, group_id) THEN s
    ELSE LET group == Get(s.groups, group_id)
             s1 == ResizeMembers(s, group.widget_ids, group, new_width, new_height)
         IN SetGroup(s1, [group EXCEPT !.width = new_width, !.height = new_height])

RECURSIVE DeleteMembers(_, _)
DeleteMembers(s, widget_ids) ==
    IF widget_ids = <<>> THEN s
    ELSE DeleteMembers(delete_widget(s, Head(widget_ids)), Tail(widget_ids))

delete_group(s, group_id) ==
    IF ~Has(s.groups, group_id) THEN s
    ELSE LET s1 == DeleteMembers(s, Get(s.groups, group_id).widget_ids)
         IN Status([s1 EXCEPT !.groups = Del(s1.groups, group_id)],
                   "Group '{name}' deleted", 0)

(***************************************************************************)
(* ui/design_canvas.py: mouse handlers                                     *)
(***************************************************************************)
grid_size == 10
snap_to_grid == TRUE

\* round(n / grid_size) * grid_size: Python rounds a tie to the even integer
SnapToGrid(n) ==
    LET q == n \div grid_size
        r == n % grid_size
        up == IF 2 * r > grid_size THEN TRUE
              ELSE IF 2 * r < grid_size THEN FALSE
              ELSE q % 2 = 1
    IN IF snap_to_grid THEN (IF up THEN q + 1 ELSE q) * grid_size ELSE n

InBox(x, y, bx, by, bw, bh) == bx <= x /\ x <= bx + bw /\ by <= y /\ y <= by + bh

find_group_at_position(s, x, y) ==
    LET hits == {i \in DOMAIN s.groups :
                    InBox(x, y, s.groups[i].x - 5, s.groups[i].y - 5,
                          s.groups[i].width + 10, s.groups[i].height + 10)}
    IN IF hits = {} THEN None ELSE s.groups[SetMin(hits)].id

find_widget_at_position(s, x, y) ==
    LET hits == {i \in DOMAIN s.widgets :
                    InBox(x, y, s.widgets[i].x, s.widgets[i].y,
                          s.widgets[i].width, s.widgets[i].height)}
    IN IF hits = {} THEN None ELSE s.widgets[SetMin(hits)].id

\* The four corner handles (top-left corners of 8 x 8 squares) of a box
Handles(bx, by, bw, bh) ==
    <<<<bx - 4, by - 4>>, <<bx + bw - 4, by - 4>>,
      <<bx - 4, by + bh - 4>>, <<bx + bw - 4, by + bh - 4>>>>

HandleHit(hs, x, y) == {i \in 1..4 : InBox(x, y, hs[i][1], hs[i][2], 8, 8)}

NoHandle == [kind |-> "none", id |-> None, index |-> 0]

find_widget_handle(s, x, y) ==
    IF ~Truthy(s.selected_widget_id) THEN NoHandle
    ELSE IF ~Has(s.widgets, s.selected_widget_id)
    THEN [kind |-> "raise", id |-> None, index |-> 0]     \* KeyError
    ELSE LET w == Get(s.widgets, s.selected_widget_id)
             hit == HandleHit(Handles(w.x, w.y, w.width, w.height), x, y)
         IN IF hit = {} THEN NoHandle
            ELSE [kind |-> "widget", id |-> w.id, index |-> SetMin(hit) - 1]

find_handle_at_position(s, x, y) ==
    IF Truthy(s.selected_group_id) /\ Has(s.groups, s.selected_group_id)
    THEN LET g == Get(s.groups, s.selected_group_id)
             hit == HandleHit(Handles(g.x - 5, g.y - 5, g.width + 10, g.height + 10), x, y)
         IN IF hit # {} THEN [kind |-> "group", id |-> g.id, index |-> SetMin(hit) - 1]
            ELSE IF InBox(x, y, g.x + g.width - 80, g.y - 25, 70, 15)
            THEN [kind |-> "group_props", id |-> g.id, index |-> -1]
            ELSE find_widget_handle(s, x, y)
    ELSE find_widget_handle(s, x, y)

\* self.widgets[...] raises KeyError when the next primary selection names no
\* widget; the selection has been changed by then.
ToggleRaises(s, widget_id) ==
    /\ widget_id \in Range(s.selected_widget_ids)
    /\ s.selected_widget_id = widget_id
    /\ Without(s.selected_widget_ids, widget_id) # <<>>
    /\ ~Has(s.widgets, Without(s.selected_widget_ids, widget_id)[1])

toggle_widget_selection(s, widget_id) ==
    IF widget_id \in Range(s.selected_widget_ids)
    THEN LET ids == Without(s.selected_widget_ids, widget_id)
             s1 == [s EXCEPT !.selected_widget_ids = ids]
         IN IF s.selected_widget_id = widget_id
            THEN IF ids # <<>>
                 THEN IF Has(s.widgets, ids[1])
                      THEN on_widget_select([s1 EXCEPT !.selected_widget_id = ids[1]],
                                            ids[1])
                      ELSE [s1 EXCEPT !.selected_widget_id = ids[1]]
                 ELSE on_widget_select([s1 EXCEPT !.selected_widget_id = None], None)
            ELSE s1
    ELSE on_widget_select([s EXCEPT !.selected_widget_ids = Append(@, widget_id),
                                    !.selected_widget_id = widget_id],
                          widget_id)

select_group(s, group_id) ==
    Status([s EXCEPT !.selected_group_id = group_id, !.selected_widget_id = None],
           "Selected group: {name}", 0)

\* self.groups[self.selected_group_id] raises KeyError for a deleted group
DeselectGroupRaises(s) == Truthy(s.selected_group_id) /\ ~Has(s.groups, s.selected_group_id)
deselect_group(s) ==
    IF DeselectGroupRaises(s) THEN s ELSE [s EXCEPT !.selected_group_id = None]

on_canvas_click(s, ex, ey, ctrl) ==
    LET group_id == find_group_at_position(s, ex, ey)
        handle_info == find_handle_at_position(s, ex, ey)
        widget_id == find_widget_at_position(s, ex, ey)
    IN IF group_id # None
       THEN LET group == Get(s.groups, group_id)
            IN [deselect_all(select_group(s, group_id)) EXCEPT
                  !.drag_data = [NoDrag EXCEPT !.x = ex, !.y = ey, !.group = group_id,
                                               !.mode = "move_group",
                                               !.original_x = group.x,
                                               !.original_y = group.y]]
       ELSE IF handle_info.kind = "raise" THEN s
       ELSE IF handle_info.kind = "group_props" THEN s
       ELSE IF handle_info.kind = "group"
       THEN LET group == Get(s.groups, handle_info.id)
            IN [s EXCEPT !.drag_data =
                  [NoDrag EXCEPT !.x = ex, !.y = ey, !.group = group.id,
                                 !.mode = "resize_group", !.handle = handle_info.index,
                                 !.original_x = group.x, !.original_y = group.y,
                                 !.original_width = group.width,
                                 !.original_height = group.height]]
       ELSE IF handle_info.kind = "widget"
       THEN LET w == Get(s.widgets, handle_info.id)
            IN [select_widget(s, w.id) EXCEPT !.drag_data =
                  [NoDrag EXCEPT !.x = ex, !.y = ey, !.widget = w.id,
                                 !.mode = "resize", !.handle = handle_info.index,
                                 !.original_x = w.x, !.original_y = w.y,
                                 !.original_width = w.width,
                                 !.original_height = w.height]]
       ELSE IF widget_id # None
       THEN LET w == Get(s.widgets, widget_id)
                s1 == IF ctrl THEN toggle_widget_selection(s, widget_id)
                      ELSE select_widget(s, widget_id)
            IN IF (~ctrl /\ DeselectGroupRaises(s1)) \/ (ctrl /\ ToggleRaises(s, widget_id))
               THEN s1
               ELSE [(IF ctrl THEN s1 ELSE deselect_group(s1)) EXCEPT !.drag_data =
                       [NoDrag EXCEPT !.x = ex, !.y = ey, !.widget = widget_id,
                                      !.mode = "move",
                                      !.original_x = w.x, !.original_y = w.y,
                                      !.click_offset_x = ex - w.x,
                                      !.click_offset_y = ey - w.y]]
       ELSE LET s1 == deselect_all(s)
            IN IF DeselectGroupRaises(s1) THEN s1
               ELSE [deselect_group(s1) EXCEPT !.drag_data = NoDrag]

\* The rectangle a corner handle is dragged to
Dragged(d, ex, ey) ==
    LET ox == d.original_x
        oy == d.original_y
        ow == d.original_width
        oh == d.original_height
    IN CASE d.handle = 0 -> [x |-> ex, y |-> ey, width |-> ow + (ox - ex), height |-> oh + (oy - ey)]
         [] d.handle = 1 -> [x |-> ox, y |-> ey, width |-> ex - ox, height |-> oh + (oy - ey)]
         [] d.handle = 2 -> [x |-> ex, y |-> oy, width |-> ow + (ox - ex), height |-> ey - oy]
         [] d.handle = 3 -> [x |-> ox, y |-> oy, width |-> ex - ox, height |-> ey - oy]
         [] OTHER -> [x |-> ox, y |-> oy, width |-> ow, height |-> oh]

on_canvas_drag(s, ex, ey) ==
    LET d == s.drag_data
    IN IF Truthy(d.group)
       THEN IF ~Has(s.groups, d.group) THEN s
            ELSE IF d.mode = "move_group"
            THEN LET dx == SnapToGrid(ex - d.x)
                     dy == SnapToGrid(ey - d.y)
                     s1 == move_group(s, d.group, dx, dy)
                     group == Get(s1.groups, d.group)
                 IN [s1 EXCEPT !.drag_data = [d EXCEPT !.x = ex, !.y = ey,
                                                       !.original_x = group.x,
                                                       !.original_y = group.y]]
            ELSE IF d.mode = "resize_group"
            THEN LET r == Dragged(d, ex, ey)
                 IN resize_group(s, d.group, SnapToGrid(Max2(50, r.width)),
                                 SnapToGrid(Max2(50, r.height)))
            ELSE s
       ELSE IF Truthy(d.widget)
       THEN IF ~Has(s.widgets, d.widget) THEN s          \* KeyError
            ELSE IF d.mode = "move"
            THEN LET new_x == SnapToGrid(ex - d.click_offset_x)
                     new_y == SnapToGrid(ey - d.click_offset_y)
                 IN SetField(SetField(s, d.widget, "x", Max2(0, new_x)),
                             d.widget, "y", Max2(0, new_y))
            ELSE IF d.mode = "resize"
            THEN LET r == Dragged(d, ex, ey)
                     new_width == SnapToGrid(Max2(20, r.width))
                     new_height == SnapToGrid(Max2(20, r.height))
                     w == Get(s.widgets, d.widget)
                     a == SetField(s, d.widget, "x", Max2(0, SnapToGrid(r.x)))
                     b == SetField(a, d.widget, "y", Max2(0, SnapToGrid(r.y)))
                     c == SetField(b, d.widget, "width", new_width)
                     e == SetField(c, d.widget, "height", new_height)
                     f == IF "width" \in DOMAIN w.properties
                          THEN SetProperty(e, w.pobj, "width", IntV(new_width)) ELSE e
                 IN IF "height" \in DOMAIN w.properties
                    THEN SetProperty(f, w.pobj, "height", IntV(new_height)) ELSE f
            ELSE s
       ELSE s

on_canvas_release(s) == [s EXCEPT !.drag_data = NoDrag]

(***************************************************************************)
(* ui/design_canvas.py: layers                                             *)
(***************************************************************************)
set_widget_layer(s, widget_id, layer) ==
    IF Has(s.widgets, widget_id) THEN SetField(s, widget_id, "layer", layer) ELSE s

WidgetLayers(s) == {s.widgets[i].layer : i \in DOMAIN s.widgets}

bring_to_front(s, widget_id) ==
    IF Has(s.widgets, widget_id)
    THEN set_widget_layer(s, widget_id, SetMax(WidgetLayers(s)) + 1)
    ELSE s

send_to_back(s, widget_id) ==
    IF Has(s.widgets, widget_id)
    THEN set_widget_layer(s, widget_id, SetMin(WidgetLayers(s)) - 1)
    ELSE s

RECURSIVE LayerMembers(_, _, _)
LayerMembers(s, widget_ids, layer) ==
    IF widget_ids = <<>> THEN s
    ELSE LayerMembers(set_widget_layer(s, Head(widget_ids), layer), Tail(widget_ids), layer)

set_group_layer(s, group_id, layer) ==
    IF ~Has(s.groups, group_id) THEN s
    ELSE LET group == Get(s.groups, group_id)
         IN LayerMembers(SetGroup(s, [group EXCEPT !.layer = layer]), group.widget_ids, layer)

\* max(..., default=0) over the widgets
bring_group_to_front(s, group_id) ==
    IF Has(s.groups, group_id)
    THEN Status(set_group_layer(s, group_id, SetMax(WidgetLayers(s) \cup {0}) + 1),
                "Group brought to front", 0)
    ELSE s

send_group_to_back(s, group_id) ==
    IF Has(s.groups, group_id)
    THEN Status(set_group_layer(s, group_id, SetMin(WidgetLayers(s) \cup {0}) - 1),
                "Group sent to back", 0)
    ELSE s

(***************************************************************************)
(* ui/design_canvas.py: context menus.  cmd is the menu entry the user     *)
(* picks, arg the group or widget of an 'Add to Group'/'Add Widget' entry. *)
(***************************************************************************)
WidgetMenu(s, widget_id) ==
    {"Delete", "Duplicate", "Bring to Front", "Send to Back"}
    \cup (IF Has(s.widgets, widget_id)
          THEN IF Truthy(Get(s.widgets, widget_id).group_id)
               THEN {"Remove from Group", "Ungroup All"}
               ELSE {"Create Group"} \cup (IF s.groups # <<>> THEN {"Add to Group"} ELSE {})
          ELSE {})

show_context_menu(s, widget_id, cmd, arg) ==
    CASE cmd = "Delete" -> delete_widget(s, widget_id)
      [] cmd = "Duplicate" -> duplicate_widget(s, widget_id)
      [] cmd = "Bring to Front" -> bring_to_front(s, widget_id)
      [] cmd = "Send to Back" -> send_to_back(s, widget_id)
      [] cmd = "Remove from Group" ->
            remove_from_group(s, widget_id, Get(s.widgets, widget_id).group_id)
      [] cmd = "Ungroup All" -> ungroup_widgets(s, Get(s.widgets, widget_id).group_id)
      [] cmd = "Create Group" -> create_group_from_selection(s)
      [] cmd = "Add to Group" -> add_to_group(s, widget_id, arg)
      [] OTHER -> s

GroupMenu == {"Add Widget", "Ungroup", "Delete Group", "Bring to Front", "Send to Back"}

show_group_context_menu(s, group_id, cmd, arg) ==
    CASE cmd = "Add Widget" -> add_to_group(s, arg, group_id)
      [] cmd = "Ungroup" -> ungroup_widgets(s, group_id)
      [] cmd = "Delete Group" -> delete_group(s, group_id)
      [] cmd = "Bring to Front" -> bring_group_to_front(s, group_id)
      [] cmd = "Send to Back" -> send_group_to_back(s, group_id)
      [] OTHER -> s

\* The entries the menu shown at (ex, ey) offers, as <<cmd, arg>>
MenuEntries(s, ex, ey) ==
    LET group_id == find_group_at_position(s, ex, ey)
        widget_id == find_widget_at_position(s, ex, ey)
    IN IF group_id # None
       THEN {<<cmd, None>> : cmd \in GroupMenu \ {"Add Widget"}}
            \cup {<<"Add Widget", wid>> : wid \in Keys(s.widgets)
                                                  \ Range(Get(s.groups, group_id).widget_ids)}
       ELSE IF widget_id # None
       THEN {<<cmd, None>> : cmd \in WidgetMenu(s, widget_id) \ {"Add to Group"}}
            \cup (IF "Add to Group" \in WidgetMenu(s, widget_id)
                  THEN {<<"Add to Group", gid>> : gid \in Keys(s.groups)} ELSE {})
       ELSE {}

on_right_click(s, ex, ey, cmd, arg) ==
    LET group_id == find_group_at_position(s, ex, ey)
        widget_id == find_widget_at_position(s, ex, ey)
    IN IF group_id # None THEN show_group_context_menu(s, group_id, cmd, arg)
       ELSE IF widget_id # None THEN show_context_menu(s, widget_id, cmd, arg)
       ELSE s

(***************************************************************************)
(* ui/widget_toolbox.py and the application's property editor callback     *)
(***************************************************************************)
\* winfo_width(), winfo_height() of the canvas
CanvasSize == <<200, 130>>

\* WidgetToolbox.on_widget_click, with no drag in progress
on_widget_click(s, widget_type) ==
    LET x == Max2(50, CanvasSize[1] \div 2 - 50)
        y == Max2(50, CanvasSize[2] \div 2 - 15)
    IN deselect_all(add_widget(s, widget_type, x, y))

\* WidgetToolbox.end_drag, for a real drag
end_drag(s, widget_type) ==
    LET x == Max2(50, CanvasSize[1] \div 2 - 50)
        y == Max2(50, CanvasSize[2] \div 2 - 15)
    IN add_widget(s, widget_type, x, y)

update_widget_property(s, widget_id, property_name, value) ==
    IF Has(s.widgets, widget_id)
       /\ property_name \in DOMAIN Get(s.widgets, widget_id).properties
    THEN update_status_info(SetProperty(s, Get(s.widgets, widget_id).pobj,
                                        property_name, value))
    ELSE s

\* GUIBuilderApp.on_property_change
on_property_change(s, property_name, value) ==
    IF Truthy(s.selected_widget_id)
    THEN Status(update_widget_property(s, s.selected_widget_id, property_name, value),
                "Updated {property_name}", 0)
    ELSE s

(***************************************************************************)
(* Text.  A Python str is a sequence of atoms, an atom standing for the    *)
(* characters it spells; a text is a sequence of lines.  The str methods   *)
(* below work on atoms as Python's work on characters.                     *)
(***************************************************************************)
I4 == "    "
I8 == "        "
I12 == "            "
Whitespace == {" ", I4, I8, I12}
DigitAtoms == {"0", "1", "2", "3", "4", "5", "6", "7", "8", "9"}
AlphaAtoms == {"a", "b", "c", "d", "e", "f"}

\* str(n) for an integer n, one atom per character
RECURSIVE Digits(_)
Digits(n) ==
    IF n < 10 THEN <<ToString(n)>> ELSE Digits(n \div 10) \o <<ToString(n % 10)>>
FormatInt(n) == IF n < 0 THEN <<"-">> \o Digits(-n) ELSE Digits(n)

\* int(text): defined for an optional sign followed by digits, else ValueError
IsIntText(t) ==
    LET body == IF t # <<>> /\ Head(t) = "-" THEN Tail(t) ELSE t
    IN body # <<>> /\ \A i \in DOMAIN body : body[i] \in DigitAtoms
DigitValue(a) == CHOOSE d \in 0..9 : ToString(d) = a
RECURSIVE NatOf(_, _)
NatOf(t, acc) == IF t = <<>> THEN acc ELSE NatOf(Tail(t), 10 * acc + DigitValue(Head(t)))
IntOf(t) == IF Head(t) = "-" THEN -NatOf(Tail(t), 0) ELSE NatOf(t, 0)

\* pat occurs in line at position i
MatchAt(line, pat, i) ==
    /\ i >= 1
    /\ i + Len(pat) - 1 <= Len(line)
    /\ \A k \in 1..Len(pat) : line[i + k - 1] = pat[k]

\* line.find(pat, from): the first position at or after from, 0 when there is none
Find(line, pat, from) ==
    LET hits == {i \in from..Len(line) : MatchAt(line, pat, i)}
    IN IF hits = {} THEN 0 ELSE SetMin(hits)

Contains(line, pat) == Find(line, pat, 1) # 0
StartsWith(line, pat) == MatchAt(line, pat, 1)

\* line.strip()
RECURSIVE LStrip(_)
LStrip(line) ==
    IF line # <<>> /\ Head(line) \in Whitespace THEN LStrip(Tail(line)) ELSE line
RECURSIVE RStrip(_)
RStrip(line) ==
    IF line # <<>> /\ line[Len(line)] \in Whitespace
    THEN RStrip(SubSeq(line, 1, Len(line) - 1)) ELSE line
Strip(line) == RStrip(LStrip(line))

\* " ".join(lines)
RECURSIVE Join(_)
Join(lines) ==
    IF lines = <<>> THEN <<>>
    ELSE IF Len(lines) = 1 THEN lines[1]
    ELSE lines[1] \o <<" ">> \o Join(Tail(lines))

\* text.split(sep) for a one-atom separator
RECURSIVE Split(_, _, _)
Split(t, sep, cur) ==
    IF t = <<>> THEN <<cur>>
    ELSE IF Head(t) = sep THEN <<cur>> \o Split(Tail(t), sep, <<>>)
    ELSE Split(Tail(t), sep, Append(cur, Head(t)))

\* text.replace(a, "") for a one-atom a
RemoveAll(t, a) == SelectSeq(t, LAMBDA c : c # a)

RECURSIVE Flatten(_)
Flatten(ss) == IF ss = <<>> THEN <<>> ELSE Head(ss) \o Flatten(Tail(ss))

(***************************************************************************)
(* core/code_generator.py                                                  *)
(***************************************************************************)
\* clean_widget_id that also prefixes an id starting with an underscore
clean_widget_id_letters_only(widget_id) ==
    LET clean_id == [i \in DOMAIN widget_id |->
                       IF widget_id[i] = "-" THEN "_" ELSE widget_id[i]]
    IN IF clean_id # <<>> /\ ~(clean_id[1] \in AlphaAtoms)
       THEN <<"_">> \o clean_id
       ELSE clean_id

clean_widget_id(widget_id) ==
    LET clean_id == [i \in DOMAIN widget_id |->
                       IF widget_id[i] = "-" THEN "_" ELSE widget_id[i]]
    IN IF clean_id # <<>> /\ ~(clean_id[1] \in AlphaAtoms \/ clean_id[1] = "_")
       THEN <<"_">> \o clean_id
       ELSE clean_id

\* The text an f-string renders a property value as
Render(v) ==
    CASE v[1] = "int" -> FormatInt(v[2])
      [] v[1] = "str" -> v[2]
      [] v[1] = "bool" -> IF v[2] THEN <<"True">> ELSE <<"False">>
      [] OTHER -> <<"None">>

\* bool(value) of a property value
TruthyV(v) ==
    CASE v[1] = "int" -> v[2] # 0
      [] v[1] = "str" -> v[2] # <<>>
      [] v[1] = "bool" -> v[2]
      [] v[1] = "list" -> v[2] # <<>>
      [] OTHER -> FALSE

\* window_properties.get(key, default)
WpGet(wp, key, default) == IF key \in DOMAIN wp THEN wp[key] ELSE default

\* GUIBuilderApp.window_properties after construction
DefaultWindowProperties ==
    [title |-> <<"Generated GUI">>, width |-> 800, height |-> 600, resizable |-> TRUE,
     min_width |-> 400, min_height |-> 300, center_on_screen |-> TRUE]

auto_fit_margin == 50

\* The window size without the margin around the widgets
EffectiveSize_no_margin(ws, wp) ==
    IF WpGet(wp, "auto_fit", TRUE) /\ ws # <<>>
    THEN LET max_x == SetMax({ws[i].x + ws[i].width : i \in DOMAIN ws})
             max_y == SetMax({ws[i].y + ws[i].height : i \in DOMAIN ws})
         IN [width |-> Max2(wp.width, max_x), height |-> Max2(wp.height, max_y)]
    ELSE [width |-> wp.width, height |-> wp.height]

\* window_width, window_height of generate_code
EffectiveSize(ws, wp) ==
    IF WpGet(wp, "auto_fit", TRUE) /\ ws # <<>>
    THEN LET max_x == SetMax({ws[i].x + ws[i].width : i \in DOMAIN ws}) + auto_fit_margin
             max_y == SetMax({ws[i].y + ws[i].height : i \in DOMAIN ws}) + auto_fit_margin
         IN [width |-> Max2(wp.width, max_x), height |-> Max2(wp.height, max_y)]
    ELSE [width |-> wp.width, height |-> wp.height]

GeometryLine(indent, size, tail) ==
    <<indent, "self.geometry(", "'">> \o FormatInt(size.width) \o <<"x">>
    \o FormatInt(size.height) \o <<"'", ")">> \o tail

\* Template lines that hold one atom each
Verbatim(texts) == [i \in DOMAIN texts |-> IF texts[i] = "" THEN <<>> ELSE <<texts[i]>>]

\* The property names generate_widget_code reads for a widget type
PropsRead(type) ==
    CASE type = "Button" -> {"text", "width", "height", "command"}
      [] type = "Label" -> {"text", "width", "height", "font_size"}
      [] type = "Entry" -> {"placeholder", "width", "height"}
      [] type = "Checkbox" -> {"text", "checked", "width", "height"}
      [] type = "Combobox" -> {"values", "width", "height"}
      [] type = "Slider" -> {"from_", "to", "value", "width", "height"}
      [] type = "Progressbar" -> {"mode", "value", "width", "height"}
      [] OTHER -> {}

\* props[name] raises KeyError for a missing name, values.split raises
\* AttributeError for a list, value/100 raises TypeError for a str
WidgetCodeRaises(w) ==
    \/ ~(PropsRead(w.type) \subseteq DOMAIN w.properties)
    \/ (w.type = "Combobox" /\ w.properties.values[1] # "str")
    \/ (w.type = "Progressbar" /\ w.properties.mode = StrV(<<"determinate">>)
        /\ w.properties.value[1] # "int")

\* repr() of the list values.split(',')
RECURSIVE ReprList(_)
ReprList(parts) ==
    IF parts = <<>> THEN <<>>
    ELSE <<"'">> \o Head(parts) \o <<"'">>
         \o (IF Len(parts) > 1 THEN <<", ">> ELSE <<>>) \o ReprList(Tail(parts))

KindPrefix(type) ==
    CASE type = "Button" -> "button_"
      [] type = "Label" -> "label_"
      [] type = "Entry" -> "entry_"
      [] type = "Checkbox" -> "checkbox_"
      [] type = "Combobox" -> "combobox_"
      [] type = "Slider" -> "slider_"
      [] type = "Progressbar" -> "progressbar_"

Constructor(type) ==
    CASE type = "Button" -> " ctk.CTkButton("
      [] type = "Label" -> " ctk.CTkLabel("
      [] type = "Entry" -> " ctk.CTkEntry("
      [] type = "Checkbox" -> " ctk.CTkCheckBox("
      [] type = "Combobox" -> " ctk.CTkComboBox("
      [] type = "Slider" -> " ctk.CTkSlider("
      [] type = "Progressbar" -> " ctk.CTkProgressBar("

\* self.<kind>_<clean id>
VarName(w) == <<"self.", KindPrefix(w.type)>> \o clean_widget_id(w.id)

CommentLine(w) ==
    <<I8, "#", " ", w.type, " at (">> \o FormatInt(w.x) \o <<", ">> \o FormatInt(w.y) \o <<")">>
CreateLine(w) == <<I8>> \o VarName(w) \o <<" =", Constructor(w.type)>>
SizeArgs(w) ==
    <<"width=">> \o Render(w.properties.width) \o <<", ", "height=">>
    \o Render(w.properties.height)
CloseLine == <<I8, ")">>
PlaceLine(w) ==
    <<I8>> \o VarName(w) \o <<".place(", "x=">> \o FormatInt(w.x) \o <<", ", "y=">>
    \o FormatInt(w.y) \o <<")">>

\* generate_widget_code with the place call ahead of the construction
generate_widget_code_place_first(w) ==
    <<PlaceLine(w), CommentLine(w), CreateLine(w), CloseLine>>

\* The lines of generate_widget_code(widget_data)
generate_widget_code(w) ==
    LET props == w.properties
    IN CASE w.type = "Button" ->
              <<CommentLine(w), CreateLine(w),
                <<I12, "self, ", "text=", "'">> \o Render(props.text) \o <<"'", ", ">>
                  \o SizeArgs(w)>>
              \o (IF TruthyV(props.command)
                  THEN << <<I12, ", ", "command=">> \o Render(props.command) >>
                  ELSE <<>>)
              \o <<CloseLine, PlaceLine(w)>>
         [] w.type = "Label" ->
              <<CommentLine(w), CreateLine(w),
                <<I12, "self, ", "text=", "'">> \o Render(props.text) \o <<"'", ", ">>
                  \o SizeArgs(w) \o <<",">>,
                <<I12, "font=ctk.CTkFont(", "size=">> \o Render(props.font_size) \o <<")">>,
                CloseLine, PlaceLine(w)>>
         [] w.type = "Entry" ->
              <<CommentLine(w), CreateLine(w),
                <<I12, "self, ", "placeholder_", "text=", "'">> \o Render(props.placeholder)
                  \o <<"'", ", ">> \o SizeArgs(w),
                CloseLine, PlaceLine(w)>>
         [] w.type = "Checkbox" ->
              <<CommentLine(w), CreateLine(w),
                <<I12, "self, ", "text=", "'">> \o Render(props.text) \o <<"'", ", ">>
                  \o SizeArgs(w),
                CloseLine>>
              \o (IF TruthyV(props.checked)
                  THEN << <<I8>> \o VarName(w) \o <<".select()">> >>
                  ELSE <<>>)
              \o <<PlaceLine(w)>>
         [] w.type = "Combobox" ->
              <<CommentLine(w), CreateLine(w),
                <<I12, "self, ", "values=", "[">> \o ReprList(Split(props.values[2], ",", <<>>))
                  \o <<"]", ", ">> \o SizeArgs(w),
                CloseLine, PlaceLine(w)>>
         [] w.type = "Slider" ->
              <<CommentLine(w), CreateLine(w),
                <<I12, "self, ", "from_=">> \o Render(props.from_) \o <<", ", "to=">>
                  \o Render(props.to) \o <<", ">> \o SizeArgs(w),
                CloseLine,
                <<I8>> \o VarName(w) \o <<".set(">> \o Render(props.value) \o <<")">>,
                PlaceLine(w)>>
         [] w.type = "Progressbar" ->
              <<CommentLine(w), CreateLine(w),
                <<I12, "self, ">> \o SizeArgs(w),
                CloseLine>>
              \o (IF props.mode = StrV(<<"determinate">>)
                  THEN << <<I8>> \o VarName(w) \o <<".set(">> \o Render(props.value)
                          \o <<"/100", ")">> >>
                  ELSE <<>>)
              \o <<PlaceLine(w)>>
         [] OTHER -> << <<>> >>

\* The lines of CodeGenerator.generate_code(widgets, window_properties)
generate_code(ws, wp) ==
    LET size == EffectiveSize(ws, wp)
        geo == FormatInt(size.width) \o <<"x">> \o FormatInt(size.height)
    IN Verbatim(<<"#!/usr/bin/env python3", "\"\"\"", "Generated GUI Application",
                  "Created with Professional Python GUI Builder MVP", "\"\"\"", "",
                  "import customtkinter as ctk", "import tkinter as tk", "",
                  "# Set appearance mode and color theme",
                  "ctk.set_appearance_mode('dark')", "ctk.set_default_color_theme('blue')",
                  "", "class GeneratedApp(ctk.CTk):">>)
       \o << <<I4, "\"\"\"Generated GUI Application\"\"\"">>, <<I4>>,
             <<I4, "def ", "__init__(self):">>,
             <<I8, "super().__init__()">>,
             <<I8, "self.title(", "'">> \o wp.title \o <<"'", ")">> >>
       \o (IF ~WpGet(wp, "resizable", TRUE)
           THEN << <<I8, "self.resizable(False, False)">> >> ELSE <<>>)
       \o << <<I8, "self.minsize(">> \o FormatInt(WpGet(wp, "min_width", 400)) \o <<", ">>
               \o FormatInt(WpGet(wp, "min_height", 300)) \o <<")">>,
             GeometryLine(I8, size, <<>>),
             <<I8, "self.update_idletasks()  # Force window to update">>,
             <<I8, "self.state('normal')  # Ensure window is not minimized">>,
             GeometryLine(I8, size, <<"  # Set size again">>),
             <<I8, "self.update_idletasks()">>,
             <<I8, "self.setup_ui()">>,
             <<I8, "# Use after to delay size enforcement">>,
             <<I8, "self.after(100, self.enforce_window_size)">>,
             <<I8, "self.after(200, self.center_window)">>,
             <<>>,
             <<I4, "def ", "enforce_window_size(self):">>,
             <<I8, "\"\"\"Aggressively enforce the window size\"\"\"">>,
             GeometryLine(I8, size, <<>>),
             <<I8, "self.update_idletasks()">>,
             <<I8, "self.tk.call('wm', 'geometry', self._w, '">> \o geo \o <<"')">>,
             <<I8, "self.update_idletasks()">>,
             <<I8, "self.state('normal')">>,
             GeometryLine(I8, size, <<>>),
             <<I8, "self.update_idletasks()">>,
             <<I8, "try:">>,
             <<I12, "self.configure(", "width=">> \o FormatInt(size.width)
               \o <<", ", "height=">> \o FormatInt(size.height) \o <<")">>,
             <<I12, "self.update_idletasks()">>,
             <<I8, "except:">>,
             <<I12, "pass">>,
             GeometryLine(I8, size, <<>>),
             <<I8, "self.update_idletasks()">>,
             <<>>,
             <<I4, "def ", "setup_ui(self):">>,
             <<I8, "\"\"\"Setup the user interface\"\"\"">> >>
       \o (IF WpGet(wp, "center_on_screen", TRUE)
           THEN << <<I8, "# Center window on screen after UI is set up">>,
                   <<I8, "self.center_window()">>,
                   <<I8>>,
                   <<I4, "def ", "center_window(self):">>,
                   <<I8, "\"\"\"Center the window on screen\"\"\"">>,
                   <<I8, "self.update_idletasks()">>,
                   <<I8, "# Force window to correct size multiple times to ensure it sticks">>,
                   GeometryLine(I8, size, <<>>),
                   <<I8, "self.update_idletasks()">>,
                   GeometryLine(I8, size, <<"  # Set again to ensure it sticks">>),
                   <<I8, "self.update_idletasks()">>,
                   <<I8>>,
                   <<I8, "# Get actual dimensions">>,
                   <<I8, "width", " =", " self.winfo_width()">>,
                   <<I8, "height", " =", " self.winfo_height()">>,
                   <<I8>>,
                   <<I8, "# If window is still too small, force it again">>,
                   <<I8, "if width < ">> \o FormatInt(size.width - 100)
                     \o <<" or height < ">> \o FormatInt(size.height - 100) \o <<":">>,
                   GeometryLine(I12, size, <<>>),
                   <<I12, "self.update_idletasks()">>,
                   <<I12, "width", " =", " self.winfo_width()">>,
                   <<I12, "height", " =", " self.winfo_height()">>,
                   <<I8>>,
                   <<I8, "# Center the window">>,
                   <<I8, "x", " =", " (self.winfo_screenwidth() // 2) - (width // 2)">>,
                   <<I8, "y", " =", " (self.winfo_screenheight() // 2) - (height // 2)">>,
                   <<I8, "self.geometry(", "f", "'", "{width}", "x", "{height}+{", "x",
                     "}+{y}", "'", ")">> >>
           ELSE <<>>)
       \o Flatten([i \in DOMAIN ws |-> generate_widget_code(ws[i])])
       \o << <<>>, <<"if __name__ == ", "'", "__main__", "'", ":">>,
             <<I4, "app", " =", " GeneratedApp()">>, <<I4, "app.mainloop()">> >>

\* generate_code raises: window_properties['title'|'width'|'height'] or a
\* widget's code
GenerateRaises(ws, wp) ==
    \/ ~({"title", "width", "height"} \subseteq DOMAIN wp)
    \/ \E i \in DOMAIN ws : WidgetCodeRaises(ws[i])

(***************************************************************************)
(* core/code_parser.py                                                     *)
(***************************************************************************)
FloatV(t) == <<"float", t>>

\* bool(value) of a value _extract_property_value returns
TruthyP(v) ==
    IF v[1] = "float" THEN \E i \in DOMAIN v[2] : v[2][i] \in DigitAtoms \ {"0"}
    ELSE TruthyV(v)

\* float(text) is defined: an optional sign, digits around exactly one point
IsFloatText(t) ==
    LET body == IF t # <<>> /\ Head(t) = "-" THEN Tail(t) ELSE t
    IN /\ Cardinality({i \in DOMAIN body : body[i] = "."}) = 1
       /\ \E i \in DOMAIN body : body[i] \in DigitAtoms
       /\ \A i \in DOMAIN body : body[i] \in DigitAtoms \cup {"."}

\* line[start:end] of Python, for the positions of Find (end 0 excluded)
Slice(line, start, end) == SubSeq(line, start, end - 1)

_extract_string_value(line) ==
    LET s1 == Find(line, <<"'">>, 1)
        start == IF s1 # 0 THEN s1 ELSE Find(line, <<"\"">>, 1)
        e1 == Find(line, <<"'">>, start + 1)
        end == IF e1 # 0 THEN e1 ELSE Find(line, <<"\"">>, start + 1)
    IN IF start = 0 \/ end = 0 THEN <<>> ELSE Slice(line, start + 1, end)

_extract_variable_name(line) ==
    LET start == Find(line, <<"self.">>, 1)
        end == IF start = 0 THEN 0 ELSE Find(line, <<" =">>, start)
    IN IF start = 0 \/ end = 0 THEN <<>> ELSE Slice(line, start + 1, end)

\* f"{prop_name}=" as atoms
PropPattern(prop_name) ==
    CASE prop_name = "text" -> <<"text=">>
      [] prop_name = "width" -> <<"width=">>
      [] prop_name = "height" -> <<"height=">>
      [] prop_name = "placeholder_text" -> <<"placeholder_", "text=">>
      [] prop_name = "values" -> <<"values=">>
      [] prop_name = "from_" -> <<"from_=">>
      [] prop_name = "to" -> <<"to=">>

\* The end of the run of atoms of allowed that starts at position start
RECURSIVE RunEnd(_, _, _)
RunEnd(line, pos, allowed) ==
    IF pos <= Len(line) /\ line[pos] \in allowed THEN RunEnd(line, pos + 1, allowed)
    ELSE pos

_extract_property_value(line, prop_name, default) ==
    LET pattern == PropPattern(prop_name)
        found == Find(line, pattern, 1)
        start == found + Len(pattern)
    IN IF found = 0 THEN default
       ELSE IF start > Len(line) THEN default
       ELSE IF line[start] \in {"'", "\""}
       THEN LET end == Find(line, <<line[start]>>, start + 1)
            IN IF end = 0 THEN default ELSE StrV(Slice(line, start + 1, end))
       ELSE LET end == RunEnd(line, start, DigitAtoms \cup {".", "-"})
                text == Slice(line, start, end)
            IN IF end = start THEN default
               ELSE IF "." \notin Range(text)
               THEN (IF IsIntText(text) THEN IntV(IntOf(text)) ELSE default)
               ELSE (IF IsFloatText(text) THEN FloatV(text) ELSE default)

_extract_position(line) ==
    LET x_found == Find(line, <<"x=">>, 1)
        y_found == Find(line, <<"y=">>, 1)
        x_text == Slice(line, x_found + 1, RunEnd(line, x_found + 1, DigitAtoms \cup {"-"}))
        y_text == Slice(line, y_found + 1, RunEnd(line, y_found + 1, DigitAtoms \cup {"-"}))
    IN IF x_found = 0 \/ y_found = 0 THEN <<0, 0>>
       ELSE IF (x_text # <<>> /\ ~IsIntText(x_text)) \/ (y_text # <<>> /\ ~IsIntText(y_text))
       THEN <<0, 0>>
       ELSE <<IF x_text # <<>> THEN IntOf(x_text) ELSE 0,
              IF y_text # <<>> THEN IntOf(y_text) ELSE 0>>

\* The value a WidgetData field holds for an extracted property value
FieldOf(v) == IF v[1] = "int" THEN v[2] ELSE v

\* x, y = 0, 0; if place_line: x, y = _extract_position(place_line)
PositionOf(place_line) ==
    IF Truthy(place_line) THEN _extract_position(place_line) ELSE <<0, 0>>

ParsedWidget(var_name, type, place_line, width, height, properties) ==
    WidgetData(RemoveAll(var_name, KindPrefix(type)), type,
               PositionOf(place_line)[1], PositionOf(place_line)[2],
               FieldOf(width), FieldOf(height), properties, 0)

\* text or default
OrDefault(v, default) == IF TruthyP(v) THEN v ELSE StrV(default)

_parse_button_block(widget_text, place_line) ==
    LET text == _extract_property_value(widget_text, "text", NoneV)
        width == _extract_property_value(widget_text, "width", IntV(100))
        height == _extract_property_value(widget_text, "height", IntV(30))
    IN ParsedWidget(_extract_variable_name(widget_text), "Button", place_line, width, height,
                    [text |-> OrDefault(text, <<"Button">>), width |-> width,
                     height |-> height])

_parse_label_block(widget_text, place_line) ==
    LET text == _extract_property_value(widget_text, "text", NoneV)
        width == _extract_property_value(widget_text, "width", IntV(200))
        height == _extract_property_value(widget_text, "height", IntV(30))
    IN ParsedWidget(_extract_variable_name(widget_text), "Label", place_line, width, height,
                    [text |-> OrDefault(text, <<"Label">>), width |-> width,
                     height |-> height])

_parse_entry_block(widget_text, place_line) ==
    LET placeholder == _extract_property_value(widget_text, "placeholder_text", NoneV)
        width == _extract_property_value(widget_text, "width", IntV(200))
        height == _extract_property_value(widget_text, "height", IntV(30))
    IN ParsedWidget(_extract_variable_name(widget_text), "Entry", place_line, width, height,
                    [placeholder_text |-> OrDefault(placeholder, <<>>), width |-> width,
                     height |-> height])

_parse_checkbox_block(widget_text, place_line) ==
    LET text == _extract_property_value(widget_text, "text", NoneV)
        width == _extract_property_value(widget_text, "width", IntV(200))
        height == _extract_property_value(widget_text, "height", IntV(30))
    IN ParsedWidget(_extract_variable_name(widget_text), "Checkbox", place_line, width,
                    height,
                    [text |-> OrDefault(text, <<"Checkbox">>), width |-> width,
                     height |-> height])

\* values.startswith raises AttributeError for a number other than zero
ComboboxRaises(widget_text) ==
    LET values == _extract_property_value(widget_text, "values", NoneV)
    IN values[1] \in {"int", "float"} /\ TruthyP(values)

\* [v.strip().strip("'\"") for v in values[1:-1].split(',')]
ValuesList(values) ==
    IF values[1] = "str" /\ values[2] # <<>> /\ Head(values[2]) = "["
       /\ values[2][Len(values[2])] = "]"
    THEN LET parts == Split(SubSeq(values[2], 2, Len(values[2]) - 1), ",", <<>>)
         IN [i \in DOMAIN parts |-> SelectSeq(Strip(parts[i]), LAMBDA c : c \notin {"'", "\""})]
    ELSE <<>>

_parse_combobox_block(widget_text, place_line) ==
    LET values == _extract_property_value(widget_text, "values", NoneV)
        width == _extract_property_value(widget_text, "width", IntV(200))
        height == _extract_property_value(widget_text, "height", IntV(30))
    IN ParsedWidget(_extract_variable_name(widget_text), "Combobox", place_line, width,
                    height,
                    [values |-> ListV(ValuesList(values)), width |-> width,
                     height |-> height])

_parse_slider_block(widget_text, place_line) ==
    LET from_val == _extract_property_value(widget_text, "from_", IntV(0))
        to_val == _extract_property_value(widget_text, "to", IntV(100))
        width == _extract_property_value(widget_text, "width", IntV(200))
        height == _extract_property_value(widget_text, "height", IntV(20))
    IN ParsedWidget(_extract_variable_name(widget_text), "Slider", place_line, width, height,
                    [from_ |-> from_val, to |-> to_val, value |-> IntV(50), width |-> width,
                     height |-> height])

_parse_progressbar_block(widget_text, place_line) ==
    LET width == _extract_property_value(widget_text, "width", IntV(200))
        height == _extract_property_value(widget_text, "height", IntV(20))
    IN ParsedWidget(_extract_variable_name(widget_text), "Progressbar", place_line, width,
                    height,
                    [mode |-> StrV(<<"determinate">>), value |-> IntV(50), width |-> width,
                     height |-> height])

\* The widget of a block: a list of one widget, empty for None
_parse_widget_block(widget_lines, place_line) ==
    LET widget_text == Join(widget_lines)
    IN IF Contains(widget_text, <<"self.", "button_">>)
       THEN <<_parse_button_block(widget_text, place_line)>>
       ELSE IF Contains(widget_text, <<"self.", "label_">>)
       THEN <<_parse_label_block(widget_text, place_line)>>
       ELSE IF Contains(widget_text, <<"self.", "entry_">>)
       THEN <<_parse_entry_block(widget_text, place_line)>>
       ELSE IF Contains(widget_text, <<"self.", "checkbox_">>)
       THEN <<_parse_checkbox_block(widget_text, place_line)>>
       ELSE IF Contains(widget_text, <<"self.", "combobox_">>)
       THEN (IF ComboboxRaises(widget_text) THEN <<>>
             ELSE <<_parse_combobox_block(widget_text, place_line)>>)
       ELSE IF Contains(widget_text, <<"self.", "slider_">>)
       THEN <<_parse_slider_block(widget_text, place_line)>>
       ELSE IF Contains(widget_text, <<"self.", "progressbar_">>)
       THEN <<_parse_progressbar_block(widget_text, place_line)>>
       ELSE <<>>

\* The parser's window_properties before it reads a line
ParserWindowProperties ==
    [title |-> <<"Generated GUI">>, width |-> 800, height |-> 600, resizable |-> TRUE,
     min_width |-> 400, min_height |-> 300, center_on_screen |-> TRUE]

\* The state of the scan before the first line
ScanStart ==
    [in_setup_ui |-> FALSE, current_widget_lines |-> <<>>, widgets |-> <<>>,
     window_properties |-> ParserWindowProperties, raised |-> FALSE]

\* Lines 39-50: a line that sets the title or the geometry
ReadWindowLine(st, line) ==
    IF Contains(line, <<"self.title(">>)
    THEN LET title == _extract_string_value(line)
         IN IF title # <<>> THEN [st EXCEPT !.window_properties.title = title] ELSE st
    ELSE IF Contains(line, <<"self.geometry(">>)
    THEN LET geometry == _extract_string_value(line)
             parts == Split(geometry, "x", <<>>)
         IN IF geometry # <<>> /\ "x" \in Range(geometry)
            THEN IF Len(parts) # 2 \/ ~IsIntText(Strip(parts[1]))
                 THEN [st EXCEPT !.raised = TRUE]
                 ELSE IF ~IsIntText(Strip(parts[2]))
                 THEN [st EXCEPT !.window_properties.width = IntOf(Strip(parts[1])),
                                 !.raised = TRUE]
                 ELSE [st EXCEPT !.window_properties.width = IntOf(Strip(parts[1])),
                                 !.window_properties.height = IntOf(Strip(parts[2]))]
            ELSE st
    ELSE st

IsCreationLine(line) ==
    /\ \E type \in WidgetTypes : Contains(line, <<"self.", KindPrefix(type)>>)
    /\ ~Contains(line, <<".place(">>)

\* The stripped line of the first .place( call among the four lines after
\* position i, None when none of them has one
PlaceLineAfter(lines, i) ==
    LET hits == {j \in (i + 1)..Min2(i + 4, Len(lines)) : Contains(lines[j], <<".place(">>)}
    IN IF hits = {} THEN None ELSE Strip(lines[SetMin(hits)])

\* Lines 84-92: widgets[widget_data.id] = widget_data unless the block gave
\* None, then the reset of the collected lines
StoreWidget(st, widget_data) ==
    [st EXCEPT !.current_widget_lines = <<>>,
               !.widgets = IF widget_data # <<>> THEN Put(st.widgets, widget_data[1])
                           ELSE st.widgets]

\* Lines 65-95: a line inside setup_ui
ReadWidgetLine(st, lines, i, line) ==
    IF IsCreationLine(line)
    THEN [st EXCEPT !.current_widget_lines = <<line>>]
    ELSE IF st.current_widget_lines # <<>> /\ line = <<")">>
    THEN StoreWidget(st, _parse_widget_block(Append(st.current_widget_lines, line),
                                             PlaceLineAfter(lines, i)))
    ELSE IF st.current_widget_lines # <<>> /\ line # <<>>
    THEN [st EXCEPT !.current_widget_lines = Append(st.current_widget_lines, line)]
    ELSE st

\* Lines 61-62: outside setup_ui the line is skipped
ReadMethodLine(st, lines, i, line) ==
    IF ~st.in_setup_ui THEN st ELSE ReadWidgetLine(st, lines, i, line)

\* Lines 53-58: the method the line belongs to
ReadDefLine(st, lines, i, line) ==
    IF st.raised THEN st
    ELSE IF Contains(line, <<"def ", "setup_ui(self):">>)
    THEN [st EXCEPT !.in_setup_ui = TRUE]
    ELSE ReadMethodLine(IF StartsWith(line, <<"def ">>) /\ st.in_setup_ui
                        THEN [st EXCEPT !.in_setup_ui = FALSE] ELSE st,
                        lines, i, line)

\* One turn of the loop over the lines
ScanLine(st, lines, i) ==
    ReadDefLine(ReadWindowLine(st, Strip(lines[i])), lines, i, Strip(lines[i]))

RECURSIVE Scan(_, _, _)
Scan(st, lines, i) ==
    IF i > Len(lines) \/ st.raised THEN st ELSE Scan(ScanLine(st, lines, i), lines, i + 1)

\* Lines 99-105: what the scan returns, after the loop or from the except clause
ScanResult(st) ==
    [widgets |-> IF st.raised THEN <<>> ELSE st.widgets,
     window_properties |-> st.window_properties]

\* parse_code_to_widgets(code): the widgets and the window properties
parse_code_to_widgets(lines) == ScanResult(Scan(ScanStart, lines, 1))

(***************************************************************************)
(* main_new.py: code view and window properties                            *)
(***************************************************************************)
\* GUIBuilderApp.generate_code: the editor takes the generated text; an
\* exception out of the generator ends the handler
app_generate_code(s) ==
    IF GenerateRaises(s.widgets, s.window_properties) THEN s
    ELSE [s EXCEPT !.code = generate_code(s.widgets, s.window_properties)]

\* dict.update: the keys of d keep their place, those of u replace or follow
DictUpdate(d, u) ==
    [k \in DOMAIN d \cup DOMAIN u |-> IF k \in DOMAIN u THEN u[k] ELSE d[k]]

\* The parsed widgets as the objects the canvas then holds
WithPobjs(ws, held) ==
    [i \in DOMAIN ws |-> [ws[i] EXCEPT !.pobj = NthFree(held, i, 1)]]

\* Lines 350-360 of sync_from_code: the canvas takes the parsed widgets, the
\* window properties are updated with the parsed ones
ReplaceFromParse(s, parsed) ==
    LET held == IF s.clipboard = <<>> THEN {} ELSE {s.clipboard[1].w.pobj}
        s1 == [s EXCEPT !.widgets = WithPobjs(parsed.widgets, held),
                        !.window_properties = DictUpdate(@, parsed.window_properties),
                        !.clipboard = IF s.clipboard = <<>> THEN <<>>
                                      ELSE [s.clipboard EXCEPT ![1].live = FALSE]]
    IN Status(s1, "Synced from code", 0)

\* GUIBuilderApp.sync_from_code
sync_from_code(s) == ReplaceFromParse(s, parse_code_to_widgets(s.code))

\* GUIBuilderApp.apply_window_properties
apply_window_properties(s, properties) ==
    Status(update_status_info([s EXCEPT !.window_properties = DictUpdate(@, properties)]),
           "Window properties updated", 0)

(***************************************************************************)
(* Project files.  A file is what json.load makes of it: no file, a text   *)
(* that is not JSON, or a dict with the widgets as WidgetData.to_dict      *)
(* writes them and, when present, the window properties.                   *)
(***************************************************************************)
ProjectData(ws, wp) ==
    [content |-> "json", widgets |-> [i \in DOMAIN ws |-> to_dict(ws[i])],
     window_properties |-> wp]

\* GUIBuilderApp.save_project with a file chosen
save_project(s) ==
    Status([s EXCEPT !.project_file = ProjectData(s.widgets, s.window_properties)],
           "Saved: {name}", 0)

\* WidgetType(widget_data['type']) raises ValueError
BadType(widget_data) == widget_data.type \notin WidgetTypes

\* The loop over data.get('widgets', []) of the three loaders: each entry
\* becomes a WidgetData stored under its id, until an entry raises.  clean
\* says whether the id goes through clean_widget_id, props whether the
\* properties of the entry are read.
RECURSIVE LoadWidgets(_, _, _, _, _)
LoadWidgets(ws, entries, held, clean, props) ==
    IF entries = <<>> THEN [widgets |-> ws, raised |-> FALSE]
    ELSE LET widget_data == Head(entries)
         IN IF BadType(widget_data) THEN [widgets |-> ws, raised |-> TRUE]
            ELSE LoadWidgets(
                    Put(ws, WidgetData(IF clean THEN clean_widget_id(widget_data.id)
                                       ELSE widget_data.id,
                                       widget_data.type, widget_data.x, widget_data.y,
                                       widget_data.width, widget_data.height,
                                       IF props THEN widget_data.properties ELSE <<>>,
                                       NthFree(held \cup {ws[i].pobj : i \in DOMAIN ws}, 1, 1))),
                    Tail(entries), held, clean, props)

ClipboardPobjs(s) == IF s.clipboard = <<>> THEN {} ELSE {s.clipboard[1].w.pobj}

\* The clipboard no longer holds a widget of the canvas
Detached(s) ==
    [s EXCEPT !.clipboard = IF s.clipboard = <<>> THEN <<>>
                            ELSE [s.clipboard EXCEPT ![1].live = FALSE]]

CleanedCount(entries) ==
    Cardinality({i \in DOMAIN entries : \E k \in DOMAIN entries[i].id : entries[i].id[k] = "-"})

\* GUIBuilderApp.load_project_from_path of main.py
load_project_from_path(s, data) ==
    IF data.content # "json" THEN s
    ELSE LET s1 == [Detached(s) EXCEPT
                       !.widgets = <<>>,
                       !.window_properties =
                           IF "window_properties" \in DOMAIN data
                           THEN DictUpdate(@, data.window_properties) ELSE @]
             loaded == LoadWidgets(<<>>, data.widgets, ClipboardPobjs(s), TRUE, TRUE)
             s2 == [s1 EXCEPT !.widgets = loaded.widgets]
         IN IF loaded.raised THEN s2
            ELSE IF CleanedCount(data.widgets) > 0
            THEN Status(s2, "Project loaded: {name} (cleaned {n} widget IDs)",
                        CleanedCount(data.widgets))
            ELSE Status(s2, "Project loaded: {name}", 0)

\* GUIBuilderApp.open_project of main_new.py with a file chosen
open_project(s, data) ==
    IF data.content # "json" THEN s
    ELSE LET loaded == LoadWidgets(<<>>, data.widgets, ClipboardPobjs(s), FALSE, TRUE)
             s1 == [Detached(s) EXCEPT !.widgets = loaded.widgets]
         IN IF loaded.raised THEN s1
            ELSE Status([s1 EXCEPT !.window_properties =
                                      IF "window_properties" \in DOMAIN data
                                      THEN DictUpdate(@, data.window_properties) ELSE @],
                        "Opened: {name}", 0)

\* GUIBuilderApp.load_project_from_path of main_new.py
load_recent_project(s, data) ==
    IF data.content # "json" THEN s
    ELSE LET loaded == LoadWidgets(<<>>, data.widgets, ClipboardPobjs(s), FALSE, FALSE)
             s1 == [Detached(s) EXCEPT !.widgets = loaded.widgets]
         IN IF loaded.raised THEN s1
            ELSE Status(update_status_info(
                            [s1 EXCEPT !.window_properties =
                                          IF "window_properties" \in DOMAIN data
                                          THEN data.window_properties ELSE <<>>]),
                        "Project loaded: {name}", 0)

(***************************************************************************)
(* The program after construction                                          *)
(***************************************************************************)
InitState ==
    [widgets |-> <<>>, groups |-> <<>>, selected_widget_id |-> None,
     selected_widget_ids |-> <<>>, selected_group_id |-> None, drag_data |-> NoDrag,
     clipboard |-> <<>>, undo_stack |-> <<>>, redo_stack |-> <<>>,
     status_bar |-> <<"Ready", 0>>, window_properties |-> DefaultWindowProperties,
     code |-> <<>>, project_file |-> NoFile]


\* The variables hold state s
Holds(s) ==
    /\ widgets = s.widgets
    /\ groups = s.groups
    /\ selected_widget_id = s.selected_widget_id
    /\ selected_widget_ids = s.selected_widget_ids
    /\ selected_group_id = s.selected_group_id
    /\ drag_data = s.drag_data
    /\ clipboard = s.clipboard
    /\ undo_stack = s.undo_stack
    /\ redo_stack = s.redo_stack
    /\ status_bar = s.status_bar
    /\ window_properties = s.window_properties
    /\ code = s.code
    /\ project_file = s.project_file

Init == Holds(InitState)

(***************************************************************************)
(* The user's inputs.  A click lands on a point the canvas shows: the      *)
(* middle of a widget, its bottom-right handle, the bottom-right handle of *)
(* a group outline, or empty canvas.                                       *)
(***************************************************************************)
ToolboxTypes == {"Button"}
EmptyPoint == <<600, 500>>
DragDeltas == {<<40, 20>>}
PropertyEdits == {<<"text", StrV(<<"OK">>)>>}

ClickPoints(s) ==
    {<<s.widgets[i].x + s.widgets[i].width \div 2, s.widgets[i].y + s.widgets[i].height \div 2>>
       : i \in DOMAIN s.widgets}
    \cup {<<s.widgets[i].x + s.widgets[i].width, s.widgets[i].y + s.widgets[i].height>>
            : i \in DOMAIN s.widgets}
    \cup {<<s.groups[i].x + s.groups[i].width + 7, s.groups[i].y + s.groups[i].height + 7>>
            : i \in DOMAIN s.groups}
    \cup {EmptyPoint}

\* The model follows the program while the document stays within the bounds
Bounded(s) ==
    /\ Len(s.widgets) <= MaxWidgets
    /\ Len(s.groups) <= MaxGroups
    /\ Len(s.undo_stack) <= MaxHistory
    /\ Len(s.redo_stack) <= MaxHistory
    /\ IdsInUse(s) \subseteq {Uuid(n) : n \in 1..MaxIds} \cup {None}
    /\ \A i \in DOMAIN s.widgets :
          /\ s.widgets[i].x \in 0..MaxCoord
          /\ s.widgets[i].y \in 0..MaxCoord
          /\ s.widgets[i].x + s.widgets[i].width <= MaxCoord + MaxSize
          /\ s.widgets[i].y + s.widgets[i].height <= MaxCoord + MaxSize
          /\ s.widgets[i].layer \in (0 - MaxLayer)..MaxLayer

\* A step of a handler that ends in state s
Step(s) == Bounded(s) /\ Commit(s)

\* The mouse button is up: the user presses no key and opens no menu while
\* dragging, and a press is followed by a release before the next press.
ButtonUp == drag_data = NoDrag

(***************************************************************************)
(* Actions: one per handler                                                *)
(***************************************************************************)
ToolboxClick ==
    \E type \in ToolboxTypes :
        ButtonUp /\ Step(on_widget_click(Cur, type))

ToolboxDrop ==
    \E type \in ToolboxTypes :
        ButtonUp /\ Step(end_drag(Cur, type))

CanvasClick ==
    \E p \in ClickPoints(Cur) :
        ButtonUp /\ Step(on_canvas_click(Cur, p[1], p[2], FALSE))

CanvasCtrlClick ==
    \E p \in ClickPoints(Cur) :
        ButtonUp /\ Step(on_canvas_click(Cur, p[1], p[2], TRUE))

CanvasDrag ==
    \E d \in DragDeltas :
        drag_data.mode # "none"
        /\ Step(on_canvas_drag(Cur, drag_data.x + d[1], drag_data.y + d[2]))

CanvasRelease == ~ButtonUp /\ Step(on_canvas_release(Cur))

\* A right click and the choice of an entry of the menu it opens: the states
\* the handler can end in for the entries of one family
RightClick(s, cmds) ==
    UNION {{on_right_click(s, p[1], p[2], e[1], e[2]) :
               e \in {m \in MenuEntries(s, p[1], p[2]) : m[1] \in cmds}} :
           p \in ClickPoints(s)}

MenuDelete ==
    \E t \in RightClick(Cur, {"Delete", "Delete Group"}) : ButtonUp /\ Step(t)

MenuDuplicate ==
    \E t \in RightClick(Cur, {"Duplicate"}) : ButtonUp /\ Step(t)

MenuLayer ==
    \E t \in RightClick(Cur, {"Bring to Front"}) : ButtonUp /\ Step(t)

MenuGroup ==
    \E t \in RightClick(Cur, {"Create Group", "Add to Group", "Add Widget"}) :
        ButtonUp /\ Step(t)

MenuUngroup ==
    \E t \in RightClick(Cur, {"Remove from Group", "Ungroup All", "Ungroup"}) :
        ButtonUp /\ Step(t)

DeleteKey == ButtonUp /\ Step(on_delete_key(Cur))
Copy == ButtonUp /\ Step(on_copy(Cur))
Cut == ButtonUp /\ Step(on_cut(Cur))
Paste == ButtonUp /\ Step(on_paste(Cur))
Duplicate == ButtonUp /\ Step(on_duplicate(Cur))
SelectAll == ButtonUp /\ Step(on_select_all(Cur))
Escape == ButtonUp /\ Step(on_escape(Cur))
Undo == ButtonUp /\ Step(on_undo(Cur))
Redo == ButtonUp /\ Step(on_redo(Cur))

PropertyChange ==
    \E e \in PropertyEdits : ButtonUp /\ Step(on_property_change(Cur, e[1], e[2]))

\* Editing with the mouse, the toolbox and the context menus
Next ==
    \/ ToolboxClick
    \/ ToolboxDrop
    \/ CanvasClick
    \/ CanvasCtrlClick
    \/ CanvasDrag
    \/ CanvasRelease
    \/ MenuDelete
    \/ MenuGroup
    \/ MenuUngroup
    \/ SelectAll
    \/ Escape

Spec == Init /\ [][Next]_vars

\* Grouping the widgets of a selection, then deleting widgets and undoing
NextGroup ==
    \/ ToolboxDrop
    \/ SelectAll
    \/ CanvasClick
    \/ CanvasRelease
    \/ MenuGroup
    \/ MenuUngroup
    \/ DeleteKey
    \/ Undo
    \/ Redo

SpecGroup == Init /\ [][NextGroup]_vars

\* Editing with the keyboard: clipboard, deletion and the undo/redo history
NextEdit ==
    \/ ToolboxDrop
    \/ CanvasClick
    \/ CanvasRelease
    \/ MenuLayer
    \/ DeleteKey
    \/ Copy
    \/ Cut
    \/ Paste
    \/ Duplicate
    \/ Undo
    \/ Redo

SpecEdit == Init /\ [][NextEdit]_vars

(***************************************************************************)
(* A long editing session: one widget is dropped on the canvas and copied, *)
(* then pasted again and again, with undo and redo in between, so that the *)
(* history reaches and passes max_undo_steps snapshots.                    *)
(***************************************************************************)
InitHistoryState == on_copy(end_drag(InitState, "Button"))

InitHistory == Holds(InitHistoryState)

HistPaste == ButtonUp /\ Len(widgets) < HistMaxWidgets /\ Commit(on_paste(Cur))
HistUndo == ButtonUp /\ Commit(on_undo(Cur))
HistRedo == ButtonUp /\ Commit(on_redo(Cur))

NextHistory ==
    \/ HistPaste
    \/ HistUndo
    \/ HistRedo

SpecHistory == InitHistory /\ [][NextHistory]_vars

(***************************************************************************)
(* The code view: widgets of every type are dropped on the canvas, their   *)
(* properties and the window properties are edited, the code is generated  *)
(* into the editor and the canvas is synced from the editor's text.        *)
(***************************************************************************)
\* The property editor's changes: a command for a Button, a tick for a Checkbox
CodePropertyEdits ==
    {<<"command", StrV(<<"self.", "button_", "clicked">>)>>, <<"checked", BoolV(TRUE)>>}

\* WindowPropertiesDialog.on_apply: the dict the dialog hands to its callback
DialogResults ==
    {[title |-> <<"Generated GUI">>, width |-> 800, height |-> 600, min_width |-> 400,
      min_height |-> 300, resizable |-> TRUE, center_on_screen |-> c, auto_fit |-> a]
       : c \in BOOLEAN, a \in BOOLEAN}

CodeStep(s) == Len(s.widgets) <= CodeMaxWidgets /\ Commit(s)

CodeDrop ==
    \E type \in WidgetTypes : ButtonUp /\ CodeStep(end_drag(Cur, type))

CodeProperty ==
    \E e \in CodePropertyEdits : ButtonUp /\ CodeStep(on_property_change(Cur, e[1], e[2]))

WindowProperties ==
    \E properties \in DialogResults : ButtonUp /\ CodeStep(apply_window_properties(Cur, properties))

GenerateCode == ButtonUp /\ CodeStep(app_generate_code(Cur))

SyncFromCode == ButtonUp /\ CodeStep(sync_from_code(Cur))

NextCode ==
    \/ CodeDrop
    \/ CodeProperty
    \/ WindowProperties
    \/ GenerateCode
    \/ SyncFromCode

SpecCode == Init /\ [][NextCode]_vars

(***************************************************************************)
(* Properties of the undo/redo history                                     *)
(***************************************************************************)
\* The document: the widgets in order, each as to_dict records it (id, type,
\* geometry, group_id, layer, property values)
Document(s) == [i \in DOMAIN s.widgets |-> to_dict(s.widgets[i])]

\* The documents reached from s by 0, 1, 2, ... undo steps
RECURSIVE UndoReach(_)
UndoReach(s) ==
    {Document(s)}
    \cup (IF s.undo_stack = <<>> THEN {}
          ELSE UNION {UndoReach(t) : t \in {on_undo(s)}})

\* A step of a handler that takes a snapshot before it edits
SnapshotEdit ==
    \/ Truthy(selected_widget_id) /\ DeleteKey
    \/ Truthy(selected_widget_id) /\ Has(widgets, selected_widget_id) /\ Cut
    \/ clipboard # <<>> /\ Paste
    \/ Truthy(selected_widget_id) /\ Duplicate

\* C2: from any state with a snapshot to undo, undo followed by redo leaves
\* the document as it was (same widgets in the same order, with identical
\* id, kind, geometry, property values, group_id and layer), and so does
\* redo followed by undo when there is something to redo.
C2_UndoRedoRestores ==
    /\ undo_stack # <<>> => Document(on_redo(on_undo(Cur))) = Document(Cur)
    /\ redo_stack # <<>> => Document(on_undo(on_redo(Cur))) = Document(Cur)

\* C3: the undo stack and the redo stack each hold at most max_undo_steps
\* entries, whatever the interleaving of snapshots, undo and redo.
C3_StacksBounded ==
    /\ Len(undo_stack) <= max_undo_steps
    /\ Len(redo_stack) <= max_undo_steps

\* Every snapshot taken has been undone: the redo stack is full
C3_Witness == Len(redo_stack) = max_undo_steps /\ undo_stack = <<>>

\* C4: a snapshot pushed onto a full undo stack evicts the oldest entry and
\* keeps the others in order under the new one; the stack still holds
\* max_undo_steps entries and no number of undo steps brings back the
\* document of the evicted snapshot.
C4_OldestEvicted ==
    [][(Len(undo_stack) = max_undo_steps /\ HistPaste)
         => /\ undo_stack' = Append(Tail(undo_stack), Snapshot(Cur))
            /\ Len(undo_stack') = max_undo_steps
            /\ undo_stack[1].widgets \notin UndoReach(on_paste(Cur))]_vars

\* The stack is full and its oldest entry is no longer the first snapshot
C4_Witness ==
    /\ Len(undo_stack) = max_undo_steps
    /\ redo_stack = <<>>
    /\ Len(undo_stack[1].widgets) > Len(InitHistoryState.widgets)

\* C5: a step that takes a snapshot leaves the redo stack empty, and a redo
\* issued right after it changes nothing.
C5_SnapshotClearsRedo ==
    [][SnapshotEdit => (redo_stack' = <<>> /\ on_redo(Cur)' = Cur')]_vars

\* A snapshot has just been taken by one of the four editing handlers
C5_Witness ==
    /\ undo_stack # <<>>
    /\ redo_stack = <<>>
    /\ status_bar[1] \in {"Widget deleted", "Widget cut to clipboard",
                          "Widget pasted from clipboard", "Widget duplicated"}

\* C6: undo on a non-empty undo stack replaces the widgets by exactly those
\* the popped snapshot records, pops that snapshot and pushes the state
\* before the undo onto the redo stack.
C6_UndoRestoresSnapshot ==
    undo_stack # <<>> =>
        LET t == on_undo(Cur)
        IN /\ Document(t) = undo_stack[Len(undo_stack)].widgets
           /\ t.undo_stack = SubSeq(undo_stack, 1, Len(undo_stack) - 1)
           /\ t.redo_stack = Append(redo_stack, Snapshot(Cur))

\* The widgets, the selection and both stacks of s and t are the same
SameDocumentAndHistory(s, t) ==
    /\ t.widgets = s.widgets
    /\ t.selected_widget_id = s.selected_widget_id
    /\ t.selected_widget_ids = s.selected_widget_ids
    /\ t.undo_stack = s.undo_stack
    /\ t.redo_stack = s.redo_stack

\* C7 as stated: undo on an empty undo stack, and redo on an empty redo
\* stack, changes neither widgets, selection nor stacks and reports a status
\* (the status bar shows a new text).
C7_EmptyStackReportsStatus ==
    /\ undo_stack = <<>> =>
          /\ SameDocumentAndHistory(Cur, on_undo(Cur))
          /\ on_undo(Cur).status_bar # status_bar
    /\ redo_stack = <<>> =>
          /\ SameDocumentAndHistory(Cur, on_redo(Cur))
          /\ on_redo(Cur).status_bar # status_bar

\* C7 as amended: undo on an empty undo stack, and redo on an empty redo
\* stack, changes nothing at all: widgets, selection, both stacks and the
\* text of the status bar stay as they are.
C7_EmptyStackSilentNoOp ==
    /\ undo_stack = <<>> => on_undo(Cur) = Cur
    /\ redo_stack = <<>> => on_redo(Cur) = Cur

\* The last snapshot has just been undone: the next undo finds an empty stack
C7_Witness ==
    /\ undo_stack = <<>>
    /\ redo_stack # <<>>
    /\ status_bar[1] = "Action undone"

(***************************************************************************)
(* Properties of the groups                                                *)
(***************************************************************************)
\* The smallest rectangle around the widgets of s that ids names, as
\* <<x, y, width, height>>
UnionRect(s, ids) ==
    LET min_x == SetMin({Get(s.widgets, wid).x : wid \in ids})
        min_y == SetMin({Get(s.widgets, wid).y : wid \in ids})
        max_x == SetMax({Get(s.widgets, wid).x + Get(s.widgets, wid).width : wid \in ids})
        max_y == SetMax({Get(s.widgets, wid).y + Get(s.widgets, wid).height : wid \in ids})
    IN <<min_x, min_y, max_x - min_x, max_y - min_y>>

\* C8: every group's stored (x, y, width, height) is the union of the
\* rectangles of its current members.
C8_GroupBoundsAreUnion ==
    \A i \in DOMAIN groups :
        LET g == groups[i]
            live == LiveMembers(Cur, g.widget_ids)
        IN live # {} => <<g.x, g.y, g.width, g.height>> = UnionRect(Cur, live)

\* C9: every id a group lists names a widget of the document whose group_id
\* is that group's id, and every widget with a group_id is listed by that
\* group and by no other.
C9_GroupMembership ==
    /\ \A i \in DOMAIN groups :
          \A wid \in Range(groups[i].widget_ids) :
              Has(widgets, wid) /\ Get(widgets, wid).group_id = groups[i].id
    /\ \A j \in DOMAIN widgets :
          Truthy(widgets[j].group_id) =>
              /\ Has(groups, widgets[j].group_id)
              /\ \A i \in DOMAIN groups :
                    widgets[j].id \in Range(groups[i].widget_ids)
                        <=> groups[i].id = widgets[j].group_id

\* C10: creating a group from a selection of fewer than 2 widget ids creates
\* no group, changes no widget and reports a status; from 2 or more ids it
\* creates one group that lists them, whose rectangle is the union of their
\* rectangles, and sets the group_id of each of them to the new group's id.
C10_CreateGroup ==
    LET ids == selected_widget_ids
        t == create_group_from_selection(Cur)
    IN IF Len(ids) < 2
       THEN /\ t.groups = groups
            /\ t.widgets = widgets
            /\ t.status_bar[1] =
                 "Select at least 2 widgets to create a group (Ctrl+click for multi-selection)"
       ELSE /\ Len(t.groups) = Len(groups) + 1
            /\ \A wid \in Range(ids) : Has(widgets, wid)
            /\ LET g == t.groups[Len(t.groups)]
               IN /\ g.widget_ids = ids
                  /\ <<g.x, g.y, g.width, g.height>> = UnionRect(Cur, Range(ids))
                  /\ \A wid \in Range(ids) : Get(t.widgets, wid).group_id = g.id

(***************************************************************************)
(* Properties of the round trip through the code                           *)
(***************************************************************************)
\* C1: parsing the code generated for the document returns exactly one
\* widget per widget of the document, in the document's order, with the same
\* type, the sanitized id and the same (x, y), whatever the widget types and
\* the window properties (the defaults included).
C1_RoundTrip ==
    LET parsed == parse_code_to_widgets(generate_code(widgets, window_properties)).widgets
    IN ~GenerateRaises(widgets, window_properties)
       => /\ Len(parsed) = Len(widgets)
          /\ \A i \in DOMAIN widgets :
                /\ parsed[i].type = widgets[i].type
                /\ parsed[i].id = clean_widget_id(widgets[i].id)
                /\ parsed[i].x = widgets[i].x
                /\ parsed[i].y = widgets[i].y

(***************************************************************************)
(* C11: ungrouping a group removes it from the groups, clears group_id on  *)
(* every member (the widgets listed by the group and the widgets naming    *)
(* the group), deletes no widget and leaves the x, y, width and height of  *)
(* every widget unchanged.                                                 *)
(***************************************************************************)
SameGeometry(a, b) ==
    a.x = b.x /\ a.y = b.y /\ a.width = b.width /\ a.height = b.height

Ungrouped(s, group_id) ==
    LET t == ungroup_widgets(s, group_id)
    IN /\ ~Has(t.groups, group_id)
       /\ Del(s.groups, group_id) = t.groups
       /\ Len(t.widgets) = Len(s.widgets)
       /\ \A i \in DOMAIN s.widgets :
             /\ t.widgets[i].id = s.widgets[i].id
             /\ SameGeometry(t.widgets[i], s.widgets[i])
             /\ (\/ s.widgets[i].id \in Range(Get(s.groups, group_id).widget_ids)
                 \/ s.widgets[i].group_id = group_id)
                => t.widgets[i].group_id = None

\* C11: ungrouping any group of the canvas removes it, clears the group_id of
\* its members, deletes no widget and moves or resizes none
C11_Ungroup == \A i \in DOMAIN groups : Ungrouped(Cur, groups[i].id)

\* A group has just been ungrouped and its former members are still there
C11_Witness ==
    /\ status_bar[1] = "Group '{name}' ungrouped"
    /\ groups = <<>>
    /\ Len(widgets) >= 2
    /\ \A i \in DOMAIN widgets : widgets[i].group_id = None

(***************************************************************************)
(* Opening project files.  The file the dialog offers was written by this  *)
(* program, by an earlier version of it or by hand: its first widget has   *)
(* any id over IdAtoms, a second entry may follow, of a known type or not, *)
(* and the window properties may be missing.  The user drops widgets,      *)
(* saves, and opens the file through each of the three loaders.            *)
(***************************************************************************)
IdAtoms == {"a", "1", "-", "_"}
MaxIdLen == 2
ProjMaxWidgets == 2

RECURSIVE IdStrings(_)
IdStrings(n) ==
    IF n = 0 THEN {<<>>}
    ELSE IdStrings(n - 1) \cup {Append(x, a) : x \in IdStrings(n - 1), a \in IdAtoms}

FileWidget(id, type) ==
    [id |-> id, type |-> type, x |-> 50, y |-> 50,
     width |-> 100, height |-> 30, group_id |-> None, layer |-> 0,
     properties |-> IF type \in WidgetTypes THEN get_default_properties(type) ELSE <<>>]

SecondEntries == {<<>>, <<FileWidget(<<"b", "-", "2">>, "Label")>>,
                  <<FileWidget(<<"b", "-", "2">>, "Textbox")>>}

FileWindowProperties ==
    [DefaultWindowProperties EXCEPT !.width = 640, !.height = 480]

ProjectFiles ==
    {[content |-> "invalid json"]}
    \cup {[content |-> "json", widgets |-> <<FileWidget(id, "Button")>> \o more] :
            id \in IdStrings(MaxIdLen), more \in SecondEntries}
    \cup {[content |-> "json", widgets |-> <<FileWidget(id, "Button")>> \o more,
           window_properties |-> FileWindowProperties] :
            id \in IdStrings(MaxIdLen), more \in SecondEntries}

InitProject == \E data \in ProjectFiles : Holds([InitState EXCEPT !.project_file = data])

ProjStep(s) == Len(s.widgets) <= ProjMaxWidgets /\ Commit(s)

ProjDrop == ButtonUp /\ ProjStep(end_drag(Cur, "Entry"))
SaveProject == ButtonUp /\ ProjStep(save_project(Cur))
OpenProject == ButtonUp /\ ProjStep(open_project(Cur, project_file))
LoadProject == ButtonUp /\ ProjStep(load_project_from_path(Cur, project_file))
LoadRecent == ButtonUp /\ ProjStep(load_recent_project(Cur, project_file))

NextProject == ProjDrop \/ SaveProject \/ OpenProject \/ LoadProject \/ LoadRecent

SpecProject == InitProject /\ [][NextProject]_vars

(***************************************************************************)
(* C12: clean_widget_id is idempotent: cleaning the cleaned id of any      *)
(* widget of a project file gives the cleaned id again.                    *)
(***************************************************************************)
FileIds ==
    IF project_file.content = "json"
    THEN {project_file.widgets[i].id : i \in DOMAIN project_file.widgets}
    ELSE {}

\* C12: clean_widget_id(clean_widget_id(x)) = clean_widget_id(x) for every id
\* of the file and of the canvas
C12_CleanIdempotent ==
    /\ \A x \in FileIds : clean_widget_id(clean_widget_id(x)) = clean_widget_id(x)
    /\ \A i \in DOMAIN widgets : clean_widget_id(clean_widget_id(widgets[i].id))
                                 = clean_widget_id(widgets[i].id)

\* A file whose id has a hyphen and starts with a digit has been loaded with
\* cleaning: the widget carries the cleaned id, which differs from the id read
C12_Witness ==
    /\ status_bar[1] = "Project loaded: {name} (cleaned {n} widget IDs)"
    /\ <<"1", "-">> \in FileIds
    /\ \E i \in DOMAIN widgets : widgets[i].id = <<"_", "1", "_">>

(***************************************************************************)
(* C13: the cleaned id of every string, the empty string and strings that  *)
(* start with a digit or a separator included, starts with a letter or an  *)
(* underscore.                                                             *)
(***************************************************************************)
StartsLikeIdentifier(x) == x # <<>> /\ (x[1] \in AlphaAtoms \/ x[1] = "_")

\* C13: clean_widget_id(x) starts with a letter or an underscore for every id
\* of the file and of the canvas, the empty id included
C13_CleanStartsLikeIdentifier ==
    /\ \A x \in FileIds : StartsLikeIdentifier(clean_widget_id(x))
    /\ \A i \in DOMAIN widgets : StartsLikeIdentifier(clean_widget_id(widgets[i].id))

(***************************************************************************)
(* GUIBuilderApp.on_code_change of main.py: the code editor calls it with  *)
(* its text after every key release.                                       *)
(***************************************************************************)
\* code.strip() is empty or starts with '#'
RECURSIVE FirstText(_)
FirstText(lines) ==
    IF lines = <<>> THEN <<>>
    ELSE IF Strip(Head(lines)) # <<>> THEN Strip(Head(lines))
    ELSE FirstText(Tail(lines))

StartsWithHash(line) ==
    line # <<>> /\ line[1] \in {"#!/usr/bin/env python3", "# Set appearance mode and color theme"}

\* DesignCanvas.get_widget_display_text of main.py reads a property by its
\* key: KeyError when the widget has no such property
DisplayKey(type) ==
    CASE type \in {"Button", "Label", "Checkbox"} -> {"text"}
      [] type = "Entry" -> {"placeholder"}
      [] type \in {"Slider", "Progressbar"} -> {"value"}
      [] OTHER -> {}

RenderRaises(w) == ~(DisplayKey(w.type) \subseteq DOMAIN w.properties)

\* Lines 4678-4683: the widgets stored up to the first one whose rendering raises
StoredBeforeRaise(ws) ==
    IF \E i \in DOMAIN ws : RenderRaises(ws[i])
    THEN SubSeq(ws, 1, SetMin({i \in DOMAIN ws : RenderRaises(ws[i])}))
    ELSE ws

\* Lines 4666-4721: the window properties take the parsed ones, the canvas
\* takes the parsed widgets or, when there are none, is cleared
CodeChanged(s, parsed) ==
    LET s1 == [s EXCEPT !.window_properties = DictUpdate(@, parsed.window_properties)]
        stored == StoredBeforeRaise(WithPobjs(parsed.widgets, ClipboardPobjs(s)))
    IN IF parsed.widgets # <<>>
       THEN Status([Detached(s1) EXCEPT !.widgets = stored],
                   IF \E i \in DOMAIN stored : RenderRaises(stored[i])
                   THEN "Code parsing error - canvas not updated"
                   ELSE "Canvas updated from code - {n} widgets",
                   IF \E i \in DOMAIN stored : RenderRaises(stored[i])
                   THEN 0 ELSE Len(parsed.widgets))
       ELSE IF s.widgets # <<>>
       THEN Status([Detached(s1) EXCEPT !.widgets = <<>>],
                   "Canvas cleared - no widgets found in code", 0)
       ELSE s1

on_code_change(s, text) ==
    IF FirstText(text) = <<>> \/ StartsWithHash(FirstText(text))
    THEN Status(s, "Code editor is empty or contains only comments", 0)
    ELSE CodeChanged(s, parse_code_to_widgets(text))

(***************************************************************************)
(* Window sizes: the user drops a widget, types a window size into the     *)
(* window properties dialog, generates the text, deletes its first line in *)
(* the editor, and takes the document back from the text.                  *)
(***************************************************************************)
\* The sizes typed into the dialog: the default one, and one that a dropped
\* widget with its margin outgrows in one dimension or in both
DialogSizes == {<<800, 600>>, <<240, 125>>}

FitDialogResults ==
    {[title |-> <<"Generated GUI">>, width |-> size[1], height |-> size[2],
      min_width |-> 400, min_height |-> 300, resizable |-> TRUE,
      center_on_screen |-> FALSE, auto_fit |-> a]
       : size \in DialogSizes, a \in BOOLEAN}

FitDrop == \E type \in {"Button", "Slider"} : ButtonUp /\ CodeStep(end_drag(Cur, type))

FitWindowProperties ==
    \E properties \in FitDialogResults :
        ButtonUp /\ CodeStep(apply_window_properties(Cur, properties))

\* A key release in the editor of main.py that deletes the '#!' line
DeleteFirstLine ==
    /\ ButtonUp
    /\ code # <<>>
    /\ code[1] = <<"#!/usr/bin/env python3">>
    /\ CodeStep(on_code_change([Cur EXCEPT !.code = Tail(code)], Tail(code)))

NextFit ==
    FitDrop \/ FitWindowProperties \/ GenerateCode \/ SyncFromCode \/ DeleteFirstLine

SpecFit == Init /\ [][NextFit]_vars

(***************************************************************************)
(* C14: with auto_fit true and at least one widget, the window size the    *)
(* generated text sets is, per dimension, the larger of the configured     *)
(* size and the largest position+size of a widget plus 50; otherwise it is *)
(* the configured size.  A window of 800x600 with a widget at (900, 900)   *)
(* of 100x100 comes out at 1050x1050 at least.                             *)
(***************************************************************************)
ExpectedSize(ws, wp) ==
    LET fit == (IF "auto_fit" \in DOMAIN wp THEN wp.auto_fit ELSE TRUE) /\ Len(ws) >= 1
        right == CHOOSE m \in {ws[i].x + ws[i].width : i \in DOMAIN ws} :
                    \A i \in DOMAIN ws : ws[i].x + ws[i].width <= m
        bottom == CHOOSE m \in {ws[i].y + ws[i].height : i \in DOMAIN ws} :
                     \A i \in DOMAIN ws : ws[i].y + ws[i].height <= m
    IN [width |-> IF fit /\ right + 50 > wp.width THEN right + 50 ELSE wp.width,
        height |-> IF fit /\ bottom + 50 > wp.height THEN bottom + 50 ELSE wp.height]

\* A line of the text that sets the window size to a literal
IsSizeLine(line) == Len(line) >= 3 /\ line[2] = "self.geometry(" /\ line[3] = "'"

SetsSize(line, size) ==
    LET want == GeometryLine(line[1], size, <<>>)
    IN Len(line) >= Len(want) /\ SubSeq(line, 1, Len(want)) = want

EmitsSize(text, size) ==
    /\ \E i \in DOMAIN text : IsSizeLine(text[i])
    /\ \A i \in DOMAIN text : IsSizeLine(text[i]) => SetsSize(text[i], size)

ScenarioB ==
    << WidgetData(<<"a">>, "Button", 900, 900, 100, 100, get_default_properties("Button"), 1) >>

\* C14: every self.geometry call of the generated text sets the size the
\* auto-fit rule gives, for the document at hand and for the 800x600 example
C14_AutoFitSize ==
    /\ ~GenerateRaises(widgets, window_properties)
       => EmitsSize(generate_code(widgets, window_properties),
                    ExpectedSize(widgets, window_properties))
    /\ EmitsSize(generate_code(ScenarioB, [DefaultWindowProperties EXCEPT !.width = 800]),
                 [width |-> 1050, height |-> 1050])

\* The editor shows a text generated with auto_fit on for a window of 240x125
\* that the widget outgrows in height only: 240x130
C14_Witness ==
    /\ Len(widgets) = 1 /\ widgets[1].type = "Button"
    /\ window_properties.width = 240 /\ window_properties.height = 125
    /\ WpGet(window_properties, "auto_fit", TRUE)
    /\ code = generate_code(widgets, window_properties)
    /\ EmitsSize(code, [width |-> 240, height |-> 130])

(***************************************************************************)
(* C15: the size auto-fit computes is never stored as the configured       *)
(* window size: whatever is generated, parsed and taken back from the      *)
(* text, the width and height of window_properties are a size the user     *)
(* typed into the dialog or the size the program starts with.              *)
(***************************************************************************)
C15_ConfiguredSizeNotFitted ==
    <<window_properties.width, window_properties.height>> \in DialogSizes

(***************************************************************************)
(* Edited texts: the user drops a widget, switches centering off,          *)
(* generates the text and edits it in the editor: the literal of the first *)
(* self.geometry call is replaced, a self.geometry call is typed below the *)
(* last line, or a keyword argument the generator never writes is added to *)
(* the first widget block.  Sync from Code then                            *)
(* takes the document from the text.                                       *)
(***************************************************************************)
PlainWindow ==
    [title |-> <<"Generated GUI">>, width |-> 800, height |-> 600, min_width |-> 400,
     min_height |-> 300, resizable |-> TRUE, center_on_screen |-> FALSE, auto_fit |-> TRUE]

\* 800xx600 and 800xb: not <int>x<int>; ab: no x at all
GeometryLiterals ==
    {<<"8", "0", "0", "x", "x", "6", "0", "0">>, <<"8", "0", "0", "x", "b">>, <<"a", "b">>}

\* corner_radius=8 and border_width=2: arguments of the constructors that
\* are in no widget's properties
ExtraTokens ==
    {<<I12, "corner_radius=", "8", ", ">>, <<I12, "border_", "width=", "2", ", ">>}

FirstLineWhere(text, Test(_)) ==
    IF \E i \in DOMAIN text : Test(text[i])
    THEN SetMin({i \in DOMAIN text : Test(text[i])})
    ELSE 0

IsGeometryLine(line) == Contains(line, <<"self.geometry(">>)
IsBlockStart(line) == IsCreationLine(Strip(line))

GeometryCall(literal) == <<I8, "self.geometry(", "'">> \o literal \o <<"'", ")">>

ReplaceLiteral(text, literal) ==
    LET i == FirstLineWhere(text, IsGeometryLine)
    IN [text EXCEPT ![i] = GeometryCall(literal)]

InsertAfterBlockStart(text, token) ==
    LET i == FirstLineWhere(text, IsBlockStart)
    IN SubSeq(text, 1, i) \o <<token>> \o SubSeq(text, i + 1, Len(text))

ParseDrop == \E type \in {"Button", "Entry"} : ButtonUp /\ CodeStep(end_drag(Cur, type))

ParseWindowProperties == ButtonUp /\ CodeStep(apply_window_properties(Cur, PlainWindow))

EditGeometry ==
    \E literal \in GeometryLiterals :
        /\ ButtonUp
        /\ FirstLineWhere(code, IsGeometryLine) # 0
        /\ Commit([Cur EXCEPT !.code = ReplaceLiteral(code, literal)])

\* A self.geometry call typed below the last line of the text
AppendGeometry ==
    \E literal \in GeometryLiterals :
        /\ ButtonUp
        /\ code # <<>>
        /\ ~IsGeometryLine(code[Len(code)])
        /\ Commit([Cur EXCEPT !.code = Append(code, GeometryCall(literal))])

EditBlock ==
    \E token \in ExtraTokens :
        /\ ButtonUp
        /\ FirstLineWhere(code, IsBlockStart) # 0
        /\ \A i \in DOMAIN code : code[i] \notin ExtraTokens
        /\ Commit([Cur EXCEPT !.code = InsertAfterBlockStart(code, token)])

NextParse ==
    \/ ParseDrop
    \/ ParseWindowProperties
    \/ GenerateCode
    \/ EditGeometry
    \/ AppendGeometry
    \/ EditBlock
    \/ SyncFromCode

SpecParse == Init /\ [][NextParse]_vars

\* The text with every self.geometry call taken out, line numbers kept
WithoutGeometry(text) ==
    [i \in DOMAIN text |-> IF IsGeometryLine(text[i]) THEN <<I8, "pass">> ELSE text[i]]

\* The text as it was before a keyword argument was added to a block
WithoutExtraTokens(text) == SelectSeq(text, LAMBDA line : line \notin ExtraTokens)

(***************************************************************************)
(* C16: parse_code_to_widgets returns a pair (widgets, window properties)  *)
(* for every text and never raises; when a line of the text makes it fail, *)
(* the widgets returned are those recognized up to that line.  (The text   *)
(* of the editor is always a string: there is no unreadable input.)        *)
(***************************************************************************)
IsParseResult(r) ==
    /\ DOMAIN r = {"widgets", "window_properties"}
    /\ DOMAIN r.window_properties = DOMAIN ParserWindowProperties
    /\ r.window_properties.width \in Int /\ r.window_properties.height \in Int
    /\ \A i \in DOMAIN r.widgets : r.widgets[i].type \in WidgetTypes

\* C16: the parser returns a pair for the text of the editor, and its widgets
\* are those the scan had recognized when it ended or failed
C16_ParseReturnsRecognized ==
    /\ IsParseResult(parse_code_to_widgets(code))
    /\ parse_code_to_widgets(code).widgets = Scan(ScanStart, code, 1).widgets

(***************************************************************************)
(* C17: no malformed line aborts the scan: every well-formed widget block  *)
(* of the text is returned whatever the self.geometry calls of the text    *)
(* hold, a literal that is not <int>x<int> included.                       *)
(***************************************************************************)
C17_MalformedLineAbortsNothing ==
    parse_code_to_widgets(code).widgets
       = parse_code_to_widgets(WithoutGeometry(code)).widgets

(***************************************************************************)
(* C20: a name=value token of a block whose name is not a property of the  *)
(* widget's type is ignored: the text parses to what it parses to without  *)
(* the token, widget and window properties alike.                          *)
(***************************************************************************)
C20_UnknownTokenIgnored ==
    parse_code_to_widgets(code) = parse_code_to_widgets(WithoutExtraTokens(code))

(***************************************************************************)
(* C18: when loading a project file fails, before the first widget or      *)
(* part-way, the widgets and the window properties in memory are exactly   *)
(* what they were before, whichever of the three loaders is used.          *)
(***************************************************************************)
LoadFails(data) ==
    \/ data.content = "invalid json"
    \/ data.content = "json" /\ \E i \in DOMAIN data.widgets : BadType(data.widgets[i])

SameDocument(s, t) ==
    /\ [i \in DOMAIN t.widgets |-> to_dict(t.widgets[i])]
          = [i \in DOMAIN s.widgets |-> to_dict(s.widgets[i])]
    /\ t.window_properties = s.window_properties

\* C18: a load that fails leaves widgets and window properties as they were
C18_FailedLoadKeepsDocument ==
    LoadFails(project_file)
    => /\ SameDocument(Cur, load_project_from_path(Cur, project_file))
       /\ SameDocument(Cur, open_project(Cur, project_file))
       /\ SameDocument(Cur, load_recent_project(Cur, project_file))

(***************************************************************************)
(* C19: every widget, whichever way it was constructed (toolbox, parse,    *)
(* project load, duplicate, paste, snapshot restore), has exactly the      *)
(* property keys get_default_properties gives for its type.                *)
(***************************************************************************)
C19_PropertyKeysAreSchema ==
    \A i \in DOMAIN widgets :
        DOMAIN widgets[i].properties = DOMAIN get_default_properties(widgets[i].type)

(***************************************************************************)
(* Texts written by hand: the text of test_parser.py, with the kind, the   *)
(* variable name and the position of its two blocks drawn from small sets. *)
(* The editor holds the text; the user takes the document from it.         *)
(***************************************************************************)
TextKinds == {"Button", "Label"}

\* What follows self.<kind>_ in a variable name: 1, 2, my_button_2
TextSuffixes == {<<"1">>, <<"2">>, <<"my_", "button_", "2">>}

TextXs == {50, 200}

TextBlocks == [type : TextKinds, suffix : TextSuffixes, x : TextXs]

TextVarName(b) == <<"self.", KindPrefix(b.type)>> \o b.suffix

\* The lines of one block of test_code
TextBlockLines(b) ==
    << <<I8, "#", " ", b.type, " at (">> \o FormatInt(b.x) \o <<", ", "5", "0", ")">>,
       <<I8>> \o TextVarName(b) \o <<" =", Constructor(b.type)>>,
       IF b.type = "Button"
       THEN <<I12, "self, ", "text=", "'", "Click Me!", "'", ", ", "width=", "1", "0", "0",
              ", ", "height=", "3", "0">>
       ELSE <<I12, "self, ", "text=", "'", "Hello World", "'", ", ", "width=", "2", "0", "0",
              ", ", "height=", "3", "0">>,
       <<I8, ")">>,
       <<I8>> \o TextVarName(b) \o <<".place(", "x=">> \o FormatInt(b.x)
         \o <<", ", "y=", "5", "0", ")">> >>

\* test_code with blocks b1 and b2
TestCode(b1, b2) ==
    Verbatim(<<"#!/usr/bin/env python3", "\"\"\"", "Generated GUI Application",
               "Created with Professional Python GUI Builder MVP", "\"\"\"", "",
               "import customtkinter as ctk", "import tkinter as tk", "",
               "# Set appearance mode and color theme",
               "ctk.set_appearance_mode('dark')", "ctk.set_default_color_theme('blue')",
               "", "class GeneratedApp(ctk.CTk):">>)
    \o << <<I4, "\"\"\"Generated GUI Application\"\"\"">>, <<I4>>,
          <<I4, "def ", "__init__(self):">>,
          <<I8, "super().__init__()">>,
          <<I8, "self.title(", "'", "Test GUI", "'", ")">>,
          <<I8, "self.geometry(", "'", "8", "0", "0", "x", "6", "0", "0", "'", ")">>,
          <<I8, "self.setup_ui()">>,
          <<>>,
          <<I4, "def ", "setup_ui(self):">> >>
    \o TextBlockLines(b1) \o << <<I8>> >> \o TextBlockLines(b2)
    \o << <<>>, <<"if __name__ == ", "'", "__main__", "'", ":">>,
          <<I4, "app", " =", " GeneratedApp()">>, <<I4, "app.mainloop()">> >>

InitText ==
    \E b1 \in TextBlocks, b2 \in TextBlocks :
        Holds([InitState EXCEPT !.code = TestCode(b1, b2)])

\* The sync button of the code view
TextSync == ButtonUp /\ Commit(sync_from_code(Cur))

\* A key released in the editor of main.py
TextKey == ButtonUp /\ Commit(on_code_change(Cur, code))

NextText ==
    \/ TextSync
    \/ TextKey

SpecText == InitText /\ [][NextText]_vars

\* The widgets the test's text with blocks b1 and b2 is parsed to
TestParse(b1, b2) == parse_code_to_widgets(TestCode(b1, b2)).widgets

\* Widget w is the widget of block b: its kind, and the position of its place call
WidgetOfBlock(w, b) == w.type = b.type /\ w.x = b.x /\ w.y = 50

(***************************************************************************)
(* C21: a build method with two well-formed blocks assigned to two         *)
(* distinct variable names (the test's self.button_1 and self.label_1      *)
(* among them) parses to two widgets, one per block, each with the kind of *)
(* its block and the position of its place call.                           *)
(***************************************************************************)
C21_OneWidgetPerBlock ==
    \A b1 \in TextBlocks, b2 \in TextBlocks :
        (code = TestCode(b1, b2) /\ TextVarName(b1) # TextVarName(b2))
        => /\ Len(parse_code_to_widgets(code).widgets) = 2
           /\ WidgetOfBlock(parse_code_to_widgets(code).widgets[1], b1)
           /\ WidgetOfBlock(parse_code_to_widgets(code).widgets[2], b2)

\* The line of text that closes the construction of widget w: the first line
\* that is exactly ')' after the line that assigns w's variable, 0 without one
CloseIndex(text, w) ==
    LET starts == {j \in DOMAIN text : text[j] = CreateLine(w)}
        closes == IF starts = {} THEN {}
                  ELSE {k \in (SetMin(starts) + 1)..Len(text) : Strip(text[k]) = <<")">>}
    IN IF closes = {} THEN 0 ELSE SetMin(closes)

\* In the text generated for ws, the first place call the parser finds in
\* the four lines after each widget's closing line is that widget's own
PlaceFollowsIn(text, ws) ==
    \A i \in DOMAIN ws :
        /\ CloseIndex(text, ws[i]) # 0
        /\ PlaceLineAfter(text, CloseIndex(text, ws[i])) = Strip(PlaceLine(ws[i]))

PlaceFollows(ws, wp) ==
    ~GenerateRaises(ws, wp) => PlaceFollowsIn(generate_code(ws, wp), ws)

(***************************************************************************)
(* C22: in the text the generator emits, for every widget kind and the     *)
(* property values the widget has, the widget's own place statement with   *)
(* its literal x, y is the first place statement in the four lines after   *)
(* the closing ')' line of its construction: for the widgets of the        *)
(* document, and for the document with one more widget of any kind.        *)
(***************************************************************************)
C22_PlaceFollowsClose ==
    /\ PlaceFollows(widgets, window_properties)
    /\ \A type \in WidgetTypes :
          PlaceFollows(end_drag(Cur, type).widgets, window_properties)

\* The editor holds the text of a ticked Checkbox: a select() call stands
\* between the closing line and the place call
C22_Witness ==
    /\ Len(widgets) = 1
    /\ widgets[1].type = "Checkbox"
    /\ TruthyV(widgets[1].properties.checked)
    /\ ~GenerateRaises(widgets, window_properties)
    /\ code = generate_code(widgets, window_properties)
    /\ Len(generate_code(end_drag(Cur, "Slider").widgets, window_properties)) > Len(code)

(***************************************************************************)
(* Layers: widgets are dropped, selected and grouped, widgets and groups   *)
(* are brought to the front and sent to the back from their context menus, *)
(* widgets are duplicated and deleted and the change is undone.            *)
(***************************************************************************)
MenuLayers ==
    \E t \in RightClick(Cur, {"Bring to Front", "Send to Back"}) : ButtonUp /\ Step(t)

NextLayer ==
    \/ ToolboxDrop
    \/ MenuDuplicate
    \/ SelectAll
    \/ CanvasClick
    \/ CanvasRelease
    \/ MenuGroup
    \/ MenuLayers
    \/ DeleteKey
    \/ Undo

SpecLayer == Init /\ [][NextLayer]_vars

\* The layers of the widgets and of the groups
AllLayers(s) == WidgetLayers(s) \cup {s.groups[i].layer : i \in DOMAIN s.groups}

\* The widgets whose context menu a right click can open
MenuWidgets(s) ==
    {find_widget_at_position(s, p[1], p[2]) :
        p \in {q \in ClickPoints(s) : find_group_at_position(s, q[1], q[2]) = None}}
    \ {None}

\* From s to t only the layer of widget_id has changed
OnlyLayerOf(s, t, widget_id) ==
    /\ t.groups = s.groups
    /\ Len(t.widgets) = Len(s.widgets)
    /\ \A i \in DOMAIN s.widgets :
          IF s.widgets[i].id = widget_id
          THEN t.widgets[i] = [s.widgets[i] EXCEPT !.layer = t.widgets[i].layer]
          ELSE t.widgets[i] = s.widgets[i]

\* The layer of widget_id in t is above (dir = 1) or below (dir = -1) every
\* other widget's and every group's
Outermost(t, widget_id, dir) ==
    /\ \A i \in DOMAIN t.widgets :
          t.widgets[i].id # widget_id
          => dir * Get(t.widgets, widget_id).layer > dir * t.widgets[i].layer
    /\ \A i \in DOMAIN t.groups :
          dir * Get(t.widgets, widget_id).layer > dir * t.groups[i].layer

(***************************************************************************)
(* C23: bring-to-front gives the widget the layer max(all widget and group *)
(* layers) + 1, strictly above every other widget and every group;         *)
(* send-to-back gives it min(all layers) - 1, strictly below them; no      *)
(* other layer changes.                                                    *)
(***************************************************************************)
C23_FrontAndBack ==
    \A widget_id \in MenuWidgets(Cur) :
        /\ Get(bring_to_front(Cur, widget_id).widgets, widget_id).layer
              = SetMax(AllLayers(Cur)) + 1
        /\ Outermost(bring_to_front(Cur, widget_id), widget_id, 1)
        /\ OnlyLayerOf(Cur, bring_to_front(Cur, widget_id), widget_id)
        /\ Get(send_to_back(Cur, widget_id).widgets, widget_id).layer
              = SetMin(AllLayers(Cur)) - 1
        /\ Outermost(send_to_back(Cur, widget_id), widget_id, -1)
        /\ OnlyLayerOf(Cur, send_to_back(Cur, widget_id), widget_id)

(***************************************************************************)
(* C24: move_group(g, dx, dy) is a pure translation in every reachable     *)
(* state, after a resize of the group too: every member's position grows   *)
(* by (dx, dy), no member's size and no other widget changes, and the      *)
(* group's stored width and height stay what they were.                    *)
(***************************************************************************)
C24_MoveGroupTranslates ==
    \A i \in DOMAIN groups, d \in DragDeltas :
        /\ Len(move_group(Cur, groups[i].id, d[1], d[2]).widgets) = Len(widgets)
        /\ \A j \in DOMAIN widgets :
              move_group(Cur, groups[i].id, d[1], d[2]).widgets[j]
                 = IF widgets[j].id \in Range(groups[i].widget_ids)
                   THEN [widgets[j] EXCEPT !.x = @ + d[1], !.y = @ + d[2]]
                   ELSE widgets[j]
        /\ Get(move_group(Cur, groups[i].id, d[1], d[2]).groups, groups[i].id).width
              = groups[i].width
        /\ Get(move_group(Cur, groups[i].id, d[1], d[2]).groups, groups[i].id).height
              = groups[i].height

\* The state of the scan after the first n lines of the text
ScanTo(lines, n) == Scan(ScanStart, SubSeq(lines, 1, n), 1)

\* The line assigns to self.<kind>_<id>: it starts with the variable and an
\* assignment follows
IsAssignmentLine(line) ==
    /\ \E type \in WidgetTypes : StartsWith(Strip(line), <<"self.", KindPrefix(type)>>)
    /\ Contains(line, <<" =">>)

\* The lines that mention self.<kind>_ without assigning to it
MentionLines(text) ==
    {i \in DOMAIN text :
        /\ \E type \in WidgetTypes : Contains(text[i], <<"self.", KindPrefix(type)>>)
        /\ ~IsAssignmentLine(text[i])}

IsPrefixOf(a, b) == Len(a) <= Len(b) /\ SubSeq(b, 1, Len(a)) = a

\* The line read between before and after started no block and discarded
\* no buffered line
KeepsBuffer(before, after) ==
    IF before.current_widget_lines = <<>>
    THEN after.current_widget_lines = <<>> \/ after.widgets # before.widgets
    ELSE \/ IsPrefixOf(before.current_widget_lines, after.current_widget_lines)
         \/ after.widgets # before.widgets

(***************************************************************************)
(* C25: inside the build method a line that mentions self.<kind>_ without  *)
(* being an assignment to it (a method call such as .select() or .set(),   *)
(* an argument line such as ', command=self.button_clicked') neither       *)
(* starts a block nor discards the lines buffered so far.                  *)
(***************************************************************************)
C25_MentionKeepsBuffer ==
    \A i \in MentionLines(code) :
        (ScanTo(code, i - 1).in_setup_ui /\ ~ScanTo(code, i - 1).raised)
        => KeepsBuffer(ScanTo(code, i - 1), ScanLine(ScanTo(code, i - 1), code, i))

(***************************************************************************)
(* C26: the id recovered for a block assigned to self.<kind>_<s> is        *)
(* exactly s, also when s itself contains <kind>_: every widget the test's *)
(* text parses to has the suffix of one of its two variable names as id.   *)
(***************************************************************************)
C26_IdIsSuffix ==
    \A b1 \in TextBlocks, b2 \in TextBlocks :
        code = TestCode(b1, b2)
        => \A i \in DOMAIN parse_code_to_widgets(code).widgets :
              \E b \in {b1, b2} :
                  /\ parse_code_to_widgets(code).widgets[i].id = b.suffix
                  /\ parse_code_to_widgets(code).widgets[i].type = b.type

\* When the step from s to t has removed a widget, the newest entry of the
\* undo stack is the snapshot of s, and one undo brings the widgets back
RemovalUndoable(s, t) ==
    (Keys(s.widgets) \ Keys(t.widgets) # {})
    => /\ t.undo_stack # <<>>
       /\ t.undo_stack[Len(t.undo_stack)] = Snapshot(s)
       /\ Keys(s.widgets) \subseteq Keys(on_undo(t).widgets)

(***************************************************************************)
(* C27: every operation that removes a widget (Delete key, cut, Delete of  *)
(* a widget's context menu, Delete Group) pushes a snapshot before the     *)
(* removal, so that a single undo brings the removed widgets back.         *)
(***************************************************************************)
C27_RemovalPushesSnapshot ==
    /\ RemovalUndoable(Cur, on_delete_key(Cur))
    /\ RemovalUndoable(Cur, on_cut(Cur))
    /\ \A t \in RightClick(Cur, {"Delete", "Delete Group"}) : RemovalUndoable(Cur, t)

(***************************************************************************)
(* C28: in every reachable state the primary selection and every id of the *)
(* multi-selection name a widget of the document.                          *)
(***************************************************************************)
C28_SelectionIsPresent ==
    /\ Truthy(selected_widget_id) => Has(widgets, selected_widget_id)
    /\ \A k \in DOMAIN selected_widget_ids : Has(widgets, selected_widget_ids[k])

(***************************************************************************)
(* C29: each widget owns its property values: a property edit of the       *)
(* selected widget, a copy made by duplicate or paste or the original of   *)
(* one, changes the property values of no other widget.                    *)
(***************************************************************************)
C29_PropertiesAreOwned ==
    \A e \in PropertyEdits :
        \A i \in DOMAIN widgets :
            widgets[i].id # selected_widget_id
            => /\ Len(on_property_change(Cur, e[1], e[2]).widgets) = Len(widgets)
               /\ on_property_change(Cur, e[1], e[2]).widgets[i].properties
                     = widgets[i].properties

(***************************************************************************)
(* C30: in every reachable document each widget's width and height fields  *)
(* equal the values of its width and height properties.                    *)
(***************************************************************************)
C30_SizeFieldsMatchProperties ==
    \A i \in DOMAIN widgets :
        /\ "width" \in DOMAIN widgets[i].properties
              => widgets[i].properties.width = IntV(widgets[i].width)
        /\ "height" \in DOMAIN widgets[i].properties
              => widgets[i].properties.height = IntV(widgets[i].height)

====
